---- MODULE Spec2Model ----
(***************************************************************************)
(* jobman: the supervisor of one Job (core/supervisor/run.py), its abort   *)
(* monitor (core/supervisor/abort.py), the supervised child processes and  *)
(* concurrent `kill` invocations (core/kill.py), all meeting in the store  *)
(* (models.py).                                                            *)
(*                                                                         *)
(* Every Model.save() is one transaction of the store and one step here.   *)
(* save() of a row that already has an id is an UPDATE of every field of   *)
(* the in-memory object, so a writer holding an old copy of a row writes   *)
(* the old values back.  Timestamps and log files are not part of the      *)
(* state.                                                                  *)
(***************************************************************************)
EXTENDS Integers, Sequences, FiniteSets, TLC

\* ---------------------------------------------------------------- bounds
MaxRetry == 2
MaxKills == 1
MaxTime == 3
MaxRuns == 2

\* ------------------------------------------------------ program constants
SUBMITTED == 0
RUNNING == 1
COMPLETE == 2
SIGINT == 2
EX_OK == 0
EX_DATAERR == 65
EX_UNAVAILABLE == 69
\* Python's None in a nullable integer column or attribute.
NULL == -1
datetime_max == 1000

\* Exit statuses a child may end with by itself; a signalled child may also
\* die of the signal, which Popen.wait() reports as -signum.
ExitCodes == {0, 1}
SuccessCodeChoices == {{0}, {0, 1}}
RetryChoices == {NULL} \cup (0 .. MaxRetry)
Paths == {"a", "b"}
TimeChoices == {NULL} \cup (0 .. MaxTime - 1)
DurationChoices == {NULL} \cup (0 .. MaxTime - 2)
JobIds == {"j1", "j2"}
RequestIds == JobIds \cup {"j3"}
RunStates == {SUBMITTED, RUNNING, COMPLETE}
\* The Runs of a Job by attempt, as run_job leaves them: only the last can
\* still be Submitted.
RunSeqs == {q \in UNION {[1 .. n -> [state : RunStates, killed : {FALSE}]] :
                             n \in 0 .. MaxRuns} :
               \A k \in 1 .. Len(q) - 1 : q[k].state # SUBMITTED}
\* Tuples of requested ids, repetitions included.
Requests == UNION {[1 .. n -> RequestIds] : n \in 0 .. Cardinality(RequestIds)}
NoResult == [returned |-> FALSE, nonexistent_job_ids |-> <<>>,
             nonrunning_job_ids |-> {}, killed_run_ids |-> {},
             failed_killed_run_ids |-> {}]
\* Tuples of paths; <<>> stands for None and for the empty tuple, which
\* files_exist and any_file_exists treat alike.
FileChoices == {<<>>, <<"a">>, <<"a", "b">>}

VARIABLES
    policy,      \* the arguments of build_job / run: retry_attempts, retry_delay,
                 \* success_codes, abort (an abort condition is set)
    waitOk,      \* the wait conditions hold at the present instant
    dbJobs,      \* table Job of the store: <<>> or one row [state, exit_code]
    dbRuns,      \* table Run of the store; the row id is the index
    pc,          \* position of the supervisor
    job,         \* the supervisor's in-memory Job object
    run,         \* the supervisor's in-memory Run object (id 0: not yet bound)
    attempt,     \* loop variable of run_job
    exit_code,   \* local of run_run (NULL outside it)
    children,    \* processes started by Popen; the pid is the index
    abortPc,     \* the abort monitor process
    sigPending,  \* abort_sig sent to the supervisor and not yet handled
    killPc,      \* a kill invocation: position, the Run objects it selected
    killRuns,    \*   and its loop index
    killIdx,
    killCount,   \* kill invocations so far
    killedAttempts, \* history: attempts whose Run a kill with allow_retries =
                    \* False marked killed while the Run's child was running
    killAllow,      \* the allow_retries argument of the kill in progress
    killMarked,     \* history: ids of the Runs the kill in progress has saved
                    \* with killed = True
    allowSignalled, \* history: attempts whose running child a kill with
                    \* allow_retries = True signalled
    now,            \* the clock, in ticks
    files,          \* the paths that exist in the file system
    timing,         \* the Job's wait_* and abort_* policy (NULL: not given)
    start_time,     \* Job.start_time, the time of submission
    wait_duration_time,  \* local of combine_waits
    final_wait_time,     \* local of wait
    waitNow,        \* datetime.now() as read by the present test of wait's loop
    waitIdx,        \* loop index of files_exist
    waitSeen,       \* history: the paths files_exist found in the present test
    monitor_start,  \* datetime.now() as read by combine_aborts
    final_abort_time,    \* local of signal_on_abort
    abortNow,       \* datetime.now() as read by the present test of its loop
    abortIdx,       \* loop index of any_file_exists
    abortHit,       \* the path any_file_exists found in the present test, as a set
    hostOf,         \* a store of several Jobs: the host_id of each job_id
                    \* ("none": no such Job)
    runsOf,         \*   and the Runs of each job_id, by attempt
    job_id,         \* the tuple of ids a kill call is given
    killResult,     \* what that call returned
    jobOf,          \* that store: state, exit_code and start_time of each Job
    logDirs,        \* the job ids that have a directory under the stdio root
    dbFile,         \* the store file exists, with its schema
    stdioRoot,      \* the stdio root directory exists
    purgeResult,    \* what a call of purge returned, with its arguments
    statusResult,   \* what a call of status returned, with its arguments
    lsResult,       \* what a call of ls returned, with its arguments
    resetDone,      \* reset has returned
    fieldValue,     \* a list field: the value last given to save
    dbValue,        \*   the column as stored
    fieldOutcome,   \*   and how that save ended
    fieldRead,      \*   and what reading the column back gave
    displayExit,    \* how the command's display function ended
    rcFile,         \* the shell's rc file: whether it exists, and its text
    installLog,     \* what each call of install_completions did, in order
    procs,          \* the processes of a detach: original, child, grandchild
    nohupPc,        \* position of nohupify in the process that runs it
    submitResult,   \* how build_job ended, and with which job_id
    notified,       \* the notifications dispatched so far
    gcResult,       \* how a background sweep of gc_logs ended
    delayPolicy,    \* retry_delay, retry_expo_backoff, retry_jitter of a Job
    slept,          \* the sleeps of run_job before each attempt, in tenths of a second
    deleting,       \* delete_instance in progress: the Job whose Runs are gone
    storeErrors     \* the statements the store refused

vars == <<policy, waitOk, dbJobs, dbRuns, pc, job, run, attempt, exit_code, children,
          abortPc, sigPending, killPc, killRuns, killIdx, killCount,
          killedAttempts, killAllow, killMarked, allowSignalled,
          now, files, timing, start_time, wait_duration_time, final_wait_time,
          waitNow, waitIdx, waitSeen, monitor_start, final_abort_time, abortNow,
          abortIdx, abortHit, hostOf, runsOf, job_id, killResult,
          jobOf, logDirs, dbFile, stdioRoot, purgeResult, statusResult, lsResult,
          resetDone, fieldValue, dbValue, fieldOutcome, fieldRead, displayExit,
          rcFile,
          installLog,
          procs,
          nohupPc,
          submitResult,
          notified,
          gcResult,
          delayPolicy,
          slept,
          deleting,
          storeErrors>>

supVars == <<pc, job, run, attempt, exit_code>>
killVars == <<killPc, killRuns, killIdx, killCount, killedAttempts, killAllow,
             killMarked, allowSignalled>>
timeVars == <<now, files, timing, start_time, wait_duration_time, final_wait_time,
             waitNow, waitIdx, waitSeen, monitor_start, final_abort_time, abortNow,
             abortIdx, abortHit>>
fnVars == <<hostOf, runsOf, job_id, killResult>>
storeVars == <<jobOf, logDirs, dbFile, stdioRoot>>
callVars == <<purgeResult, statusResult, lsResult, resetDone>>
fieldVars == <<fieldValue, dbValue, fieldOutcome, fieldRead>>
installVars == <<rcFile, installLog>>
nohupVars == <<procs, nohupPc>>
delayVars == <<delayPolicy, slept>>
raceVars == <<deleting, storeErrors>>
extVars == <<installVars, nohupVars, submitResult, notified, gcResult, delayVars,
            raceVars>>
\* Everything but the store of several Jobs and extVars.
restVars == <<policy, waitOk, dbJobs, dbRuns, children, abortPc, sigPending,
             supVars, killVars, timeVars, job_id, killResult, dbFile, stdioRoot,
             callVars, fieldVars, displayExit>>
cmdVars == <<storeVars, callVars, fieldVars, displayExit, extVars>>
waitVars == <<wait_duration_time, final_wait_time, waitNow, waitIdx, waitSeen>>
abortVars == <<monitor_start, final_abort_time, abortNow, abortIdx, abortHit>>

NoRun == [id |-> 0, attempt |-> NULL, state |-> SUBMITTED, pid |-> NULL,
          exit_code |-> NULL, killed |-> FALSE]
NoJob == [state |-> SUBMITTED, exit_code |-> NULL]
NoStore == [j \in JobIds |-> "none"]
NoRuns == [j \in JobIds |-> <<>>]
NoJobRow == [state |-> SUBMITTED, exit_code |-> NULL, start_time |-> 0]
NoJobs == [j \in JobIds |-> NoJobRow]
NoPurge == [returned |-> FALSE, usage_error |-> FALSE, job_id |-> <<>>,
            all |-> FALSE, metadata |-> FALSE, since |-> NULL, until |-> NULL,
            nonexistent_job_ids |-> <<>>, purged_job_ids |-> {},
            skipped_job_ids |-> {}]
NoStatus == [returned |-> FALSE, job_id |-> <<>>, no_runs |-> FALSE,
             all |-> FALSE, jobs |-> {}, runs |-> {}, not_found_job_ids |-> {}]
NoLs == [returned |-> FALSE, all |-> FALSE, show_runs |-> FALSE, jobs |-> {},
         runs |-> {}]
NoColumn == [null |-> TRUE, text |-> <<>>]
NoRead == [done |-> FALSE, none |-> TRUE, list |-> <<>>]
NoExit == [returned |-> FALSE, raised |-> FALSE, code |-> NULL]
NoProc == [alive |-> FALSE, sid |-> 0, pgid |-> 0, ctty |-> FALSE, streams |-> {}]
NoProcs == [p \in 1 .. 3 |-> NoProc]
NoPcs == [p \in 1 .. 3 |-> "none"]
NoSubmit == [returned |-> FALSE, raised |-> FALSE, job_id |-> ""]
NoDelay == [retry_delay |-> NULL, retry_expo_backoff |-> FALSE,
            retry_jitter |-> FALSE]
NoFile == [exists |-> FALSE, text |-> <<>>]
\* The parts of the state outside the store are at rest.
NoExt ==
    /\ rcFile = NoFile
    /\ installLog = <<>>
    /\ procs = NoProcs
    /\ nohupPc = NoPcs
    /\ submitResult = NoSubmit
    /\ notified = {}
    /\ gcResult = "none"
    /\ delayPolicy = NoDelay
    /\ slept = <<>>
    /\ deleting = {}
    /\ storeErrors = {}
\* Nothing has been called on the store of several Jobs or on a list field.
NoCommand ==
    /\ NoExt
    /\ purgeResult = NoPurge /\ statusResult = NoStatus /\ lsResult = NoLs
    /\ resetDone = FALSE /\ displayExit = NoExit
    /\ fieldValue = <<>> /\ dbValue = NoColumn /\ fieldOutcome = "none"
    /\ fieldRead = NoRead
NoTiming == [wait_time |-> NULL, wait_duration |-> NULL, wait_for_files |-> <<>>,
             abort_time |-> NULL, abort_duration |-> NULL, abort_for_files |-> <<>>]

\* The columns of a Run row (everything of the object but its id).
Row(r) == [attempt |-> r.attempt, state |-> r.state, pid |-> r.pid,
           exit_code |-> r.exit_code, killed |-> r.killed]
\* A Run object as a SELECT builds it from row i.
Obj(i) == [id |-> i, attempt |-> dbRuns[i].attempt, state |-> dbRuns[i].state,
           pid |-> dbRuns[i].pid, exit_code |-> dbRuns[i].exit_code,
           killed |-> dbRuns[i].killed]

Init ==
    /\ policy \in [retry_attempts : RetryChoices, retry_delay : BOOLEAN,
                   success_codes : SuccessCodeChoices, abort : BOOLEAN]
    /\ waitOk \in BOOLEAN
    /\ dbJobs = <<>>
    /\ dbRuns = <<>>
    /\ pc = "none"
    /\ job = NoJob
    /\ run = NoRun
    /\ attempt = 0
    /\ exit_code = NULL
    /\ children = <<>>
    /\ abortPc = "off"
    /\ sigPending = FALSE
    /\ killPc = "idle"
    /\ killRuns = <<>>
    /\ killIdx = 1
    /\ killCount = 0
    /\ killedAttempts = {}
    /\ killAllow = FALSE
    /\ killMarked = {}
    /\ allowSignalled = {}
    /\ now = 0
    /\ files = {}
    /\ timing = NoTiming
    /\ start_time = 0
    /\ wait_duration_time = NULL
    /\ final_wait_time = NULL
    /\ waitNow = NULL
    /\ waitIdx = 1
    /\ waitSeen = {}
    /\ monitor_start = NULL
    /\ final_abort_time = NULL
    /\ abortNow = NULL
    /\ abortIdx = 1
    /\ abortHit = {}
    /\ hostOf = NoStore
    /\ runsOf = NoRuns
    /\ job_id = <<>>
    /\ killResult = NoResult
    /\ jobOf = NoJobs /\ logDirs = {} /\ dbFile = TRUE /\ stdioRoot = TRUE
    /\ NoCommand

\* ------------------------------------------------------------ submission

\* core/run.py run(): inserts the Job and returns its id; it starts no
\* supervisor.
core_run ==
    /\ pc = "none"
    /\ job' = [state |-> SUBMITTED, exit_code |-> NULL]
    /\ dbJobs' = <<job'>>
    /\ pc' = "returned"
    /\ UNCHANGED <<policy, waitOk, dbRuns, run, attempt, exit_code, children,
                   abortPc, sigPending>>
    /\ UNCHANGED killVars
    /\ UNCHANGED <<timeVars, fnVars, cmdVars>>

\* supervisor/run.py build_job(): inserts the Job; the caller passes it to
\* run_job.
build_job ==
    /\ pc = "none"
    /\ job' = [state |-> SUBMITTED, exit_code |-> NULL]
    /\ dbJobs' = <<job'>>
    /\ pc' = "run_job"
    /\ UNCHANGED <<policy, waitOk, dbRuns, run, attempt, exit_code, children,
                   abortPc, sigPending>>
    /\ UNCHANGED killVars
    /\ UNCHANGED <<timeVars, fnVars, cmdVars>>

\* ------------------------------------------------------------ supervisor

\* The pid of the Popen object of run_run: the child started last.
proc == Len(children)

\* Variants of the two definitions below with a plausible slip each (a bound
\* off by one either way, a test that forgets the success codes); the
\* properties of the attempt loop are expected to tell them apart.
total_attempts_short == (IF policy.retry_attempts = NULL THEN 0 ELSE policy.retry_attempts)
total_attempts_long == (IF policy.retry_attempts = NULL THEN 0 ELSE policy.retry_attempts) + 2
\* total_attempts = (job.retry_attempts or 0) + 1
total_attempts == (IF policy.retry_attempts = NULL THEN 0 ELSE policy.retry_attempts) + 1

should_bail_killed_only == attempt # 0 /\ run.killed
\* attempt != 0 and (run.exit_code in job.success_codes or run.killed)
should_bail == attempt # 0 /\ (run.exit_code \in policy.success_codes \/ run.killed)

\* nohupify(), signal.signal(abort_sig, handle), abort_proc.start()
run_job_setup ==
    /\ pc = "run_job" /\ ~sigPending
    /\ abortPc' = "polling"
    /\ pc' = "wait"
    /\ UNCHANGED <<policy, waitOk, dbJobs, dbRuns, job, run, attempt, exit_code,
                   children, sigPending>>
    /\ UNCHANGED killVars
    /\ UNCHANGED <<timeVars, fnVars, cmdVars>>

\* wait(): returns at a sample that finds the conditions to hold.
wait ==
    /\ pc = "wait" /\ ~sigPending
    /\ waitOk
    /\ pc' = "loop"
    /\ UNCHANGED <<policy, waitOk, dbJobs, dbRuns, job, run, attempt, exit_code,
                   children, abortPc, sigPending>>
    /\ UNCHANGED killVars
    /\ UNCHANGED <<timeVars, fnVars, cmdVars>>

\* The wait time passes, the awaited files appear.
wait_conditions_met ==
    /\ ~waitOk
    /\ waitOk' = TRUE
    /\ UNCHANGED <<policy, dbJobs, dbRuns, children, abortPc, sigPending>>
    /\ UNCHANGED supVars
    /\ UNCHANGED killVars
    /\ UNCHANGED <<timeVars, fnVars, cmdVars>>

\* for attempt in range(total_attempts): the range is exhausted.
run_job_exhausted ==
    /\ pc = "loop" /\ ~sigPending
    /\ attempt >= total_attempts
    /\ pc' = "stop_abort"
    /\ UNCHANGED <<policy, waitOk, dbJobs, dbRuns, job, run, attempt, exit_code,
                   children, abortPc, sigPending>>
    /\ UNCHANGED killVars
    /\ UNCHANGED <<timeVars, fnVars, cmdVars>>

\* The test at the head of the loop body holds: finalize the Job and break.
run_job_bail ==
    /\ pc = "loop" /\ ~sigPending
    /\ attempt < total_attempts
    /\ should_bail
    /\ job' = [state |-> COMPLETE, exit_code |-> run.exit_code]
    /\ dbJobs' = <<job'>>
    /\ pc' = "stop_abort"
    /\ UNCHANGED <<policy, waitOk, dbRuns, run, attempt, exit_code, children,
                   abortPc, sigPending>>
    /\ UNCHANGED killVars
    /\ UNCHANGED <<timeVars, fnVars, cmdVars>>

\* The test fails: go on to the retry delay, if any, or to the next Run.
run_job_continue ==
    /\ pc = "loop" /\ ~sigPending
    /\ attempt < total_attempts
    /\ ~should_bail
    /\ pc' = IF attempt # 0 /\ policy.retry_delay THEN "sleep" ELSE "create_run"
    /\ UNCHANGED <<policy, waitOk, dbJobs, dbRuns, job, run, attempt, exit_code,
                   children, abortPc, sigPending>>
    /\ UNCHANGED killVars
    /\ UNCHANGED <<timeVars, fnVars, cmdVars>>

\* time.sleep(get_delay_secs(...))
retry_sleep ==
    /\ pc = "sleep" /\ ~sigPending
    /\ pc' = "create_run"
    /\ UNCHANGED <<policy, waitOk, dbJobs, dbRuns, job, run, attempt, exit_code,
                   children, abortPc, sigPending>>
    /\ UNCHANGED killVars
    /\ UNCHANGED <<timeVars, fnVars, cmdVars>>

\* run = Run(attempt=attempt, state=SUBMITTED, killed=False); run.save()
create_run ==
    /\ pc = "create_run" /\ ~sigPending
    /\ run' = [id |-> Len(dbRuns) + 1, attempt |-> attempt, state |-> SUBMITTED,
               pid |-> NULL, exit_code |-> NULL, killed |-> FALSE]
    /\ dbRuns' = Append(dbRuns, Row(run'))
    /\ pc' = "popen"
    /\ UNCHANGED <<policy, waitOk, dbJobs, job, attempt, exit_code, children,
                   abortPc, sigPending>>
    /\ UNCHANGED killVars
    /\ UNCHANGED <<timeVars, fnVars, cmdVars>>

\* run_run: proc = subprocess.Popen(...)
run_run_popen ==
    /\ pc = "popen" /\ ~sigPending
    /\ children' = Append(children, [st |-> "running", code |-> NULL,
                                     signalled |-> FALSE])
    /\ pc' = "save_run_running"
    /\ UNCHANGED <<policy, waitOk, dbJobs, dbRuns, job, run, attempt, exit_code,
                   abortPc, sigPending>>
    /\ UNCHANGED killVars
    /\ UNCHANGED <<timeVars, fnVars, cmdVars>>

\* A variant that saves the state and forgets the pid.
run_run_save_running_no_pid ==
    /\ pc = "save_run_running" /\ ~sigPending
    /\ run' = [run EXCEPT !.state = RUNNING]
    /\ dbRuns' = [dbRuns EXCEPT ![run.id] = Row(run')]
    /\ pc' = "save_job_running"
    /\ UNCHANGED <<policy, waitOk, dbJobs, job, attempt, exit_code, children,
                   abortPc, sigPending>>
    /\ UNCHANGED killVars
    /\ UNCHANGED <<timeVars, fnVars, cmdVars>>

\* run_run: run.pid = proc.pid; run.state = RUNNING; run.save()
run_run_save_running ==
    /\ pc = "save_run_running" /\ ~sigPending
    /\ run' = [run EXCEPT !.pid = proc, !.state = RUNNING]
    /\ dbRuns' = [dbRuns EXCEPT ![run.id] = Row(run')]
    /\ pc' = "save_job_running"
    /\ UNCHANGED <<policy, waitOk, dbJobs, job, attempt, exit_code, children,
                   abortPc, sigPending>>
    /\ UNCHANGED killVars
    /\ UNCHANGED <<timeVars, fnVars, cmdVars>>

\* run_run: job.state = RUNNING; job.save()
run_run_job_running ==
    /\ pc = "save_job_running" /\ ~sigPending
    /\ job' = [job EXCEPT !.state = RUNNING]
    /\ dbJobs' = <<job'>>
    /\ pc' = "proc_wait"
    /\ UNCHANGED <<policy, waitOk, dbRuns, run, attempt, exit_code, children,
                   abortPc, sigPending>>
    /\ UNCHANGED killVars
    /\ UNCHANGED <<timeVars, fnVars, cmdVars>>

\* run_run: exit_code = proc.wait()
run_run_wait ==
    /\ pc = "proc_wait" /\ ~sigPending
    /\ children[proc].st = "exited"
    /\ exit_code' = children[proc].code
    /\ children' = [children EXCEPT ![proc].st = "reaped"]
    /\ pc' = "save_run_complete"
    /\ UNCHANGED <<policy, waitOk, dbJobs, dbRuns, job, run, attempt, abortPc,
                   sigPending>>
    /\ UNCHANGED killVars
    /\ UNCHANGED <<timeVars, fnVars, cmdVars>>

\* run_run: run.state = COMPLETE; run.exit_code = exit_code; run.save()
run_run_save_complete ==
    /\ pc = "save_run_complete" /\ ~sigPending
    /\ run' = [run EXCEPT !.state = COMPLETE, !.exit_code = exit_code]
    /\ dbRuns' = [dbRuns EXCEPT ![run.id] = Row(run')]
    /\ pc' = "save_job_complete"
    /\ UNCHANGED <<policy, waitOk, dbJobs, job, attempt, exit_code, children,
                   abortPc, sigPending>>
    /\ UNCHANGED killVars
    /\ UNCHANGED <<timeVars, fnVars, cmdVars>>

\* run_run: job.state = COMPLETE; job.exit_code = exit_code; job.save();
\* run_run returns (its local exit_code is gone) and the for statement takes
\* the next attempt.
run_run_job_complete ==
    /\ pc = "save_job_complete" /\ ~sigPending
    /\ job' = [state |-> COMPLETE, exit_code |-> exit_code]
    /\ dbJobs' = <<job'>>
    /\ exit_code' = NULL
    /\ attempt' = attempt + 1
    /\ pc' = "loop"
    /\ UNCHANGED <<policy, waitOk, dbRuns, run, children, abortPc, sigPending>>
    /\ UNCHANGED killVars
    /\ UNCHANGED <<timeVars, fnVars, cmdVars>>

\* abort_proc.kill(); run_job returns.
run_job_stop_abort ==
    /\ pc = "stop_abort" /\ ~sigPending
    /\ abortPc' = IF abortPc = "sent" THEN abortPc ELSE "killed"
    /\ pc' = "done"
    /\ UNCHANGED <<policy, waitOk, dbJobs, dbRuns, job, run, attempt, exit_code,
                   children, sigPending>>
    /\ UNCHANGED killVars
    /\ UNCHANGED <<timeVars, fnVars, cmdVars>>

InRunJob == pc \notin {"none", "returned", "run_job", "done", "exited"}

\* handle(): sys.exit(1), wherever run_job is.
handle ==
    /\ sigPending
    /\ InRunJob
    /\ sigPending' = FALSE
    /\ pc' = "exited"
    /\ UNCHANGED <<policy, waitOk, dbJobs, dbRuns, job, run, attempt, exit_code,
                   children, abortPc>>
    /\ UNCHANGED killVars
    /\ UNCHANGED <<timeVars, fnVars, cmdVars>>

\* --------------------------------------------------------- abort monitor

\* signal_on_abort(): an abort condition holds at a poll; os.kill(pid, sig).
\* With no abort policy the loop's condition never holds.
signal_on_abort ==
    /\ abortPc = "polling"
    /\ policy.abort
    /\ sigPending' = TRUE
    /\ abortPc' = "sent"
    /\ UNCHANGED <<policy, waitOk, dbJobs, dbRuns, children>>
    /\ UNCHANGED supVars
    /\ UNCHANGED killVars
    /\ UNCHANGED <<timeVars, fnVars, cmdVars>>

\* ---------------------------------------------------------------- child

\* The command ends: with a status of its own or, once signalled, of the
\* signal.
child_exit(p) ==
    /\ children[p].st = "running"
    /\ \E c \in ExitCodes \cup (IF children[p].signalled THEN {-SIGINT} ELSE {}) :
           children' = [children EXCEPT ![p].st = "exited", ![p].code = c]
    /\ UNCHANGED <<policy, waitOk, dbJobs, dbRuns, abortPc, sigPending>>
    /\ UNCHANGED supVars
    /\ UNCHANGED killVars
    /\ UNCHANGED <<timeVars, fnVars, cmdVars>>

\* ----------------------------------------------------------------- kill

\* Rows of Run with state = RUNNING and pid not null, as objects.
RECURSIVE ActiveFrom(_)
ActiveFrom(i) ==
    IF i > Len(dbRuns) THEN <<>>
    ELSE (IF dbRuns[i].state = RUNNING /\ dbRuns[i].pid # NULL
             THEN <<Obj(i)>> ELSE <<>>) \o ActiveFrom(i + 1)

\* A variant that goes to the signalling loop without marking.
kill_select_no_mark(allow_retries) ==
    /\ killPc = "idle"
    /\ killCount < MaxKills
    /\ killCount' = killCount + 1
    /\ killRuns' = ActiveFrom(1)
    /\ killIdx' = 1
    /\ killAllow' = allow_retries
    /\ killPc' = "signal"
    /\ UNCHANGED <<policy, waitOk, dbJobs, dbRuns, children, abortPc, sigPending,
                   killedAttempts, killMarked, allowSignalled>>
    /\ UNCHANGED supVars
    /\ UNCHANGED <<timeVars, fnVars, cmdVars>>

\* kill(): the two SELECTs; with allow_retries the marking loop is skipped.
kill_select(allow_retries) ==
    /\ killPc = "idle"
    /\ killCount < MaxKills
    /\ killCount' = killCount + 1
    /\ killRuns' = ActiveFrom(1)
    /\ killIdx' = 1
    /\ killAllow' = allow_retries
    /\ killPc' = IF allow_retries THEN "signal" ELSE "mark"
    /\ UNCHANGED <<policy, waitOk, dbJobs, dbRuns, children, abortPc, sigPending,
                   killedAttempts, killMarked, allowSignalled>>
    /\ UNCHANGED supVars
    /\ UNCHANGED <<timeVars, fnVars, cmdVars>>

\* kill(): for run in runs: run.killed = True; run.save()
kill_mark ==
    /\ killPc = "mark"
    /\ IF killIdx <= Len(killRuns)
          THEN /\ dbRuns' = [dbRuns EXCEPT ![killRuns[killIdx].id] =
                                 Row([killRuns[killIdx] EXCEPT !.killed = TRUE])]
               /\ killRuns' = [killRuns EXCEPT ![killIdx].killed = TRUE]
               /\ killedAttempts' =
                    IF children[killRuns[killIdx].pid].st = "running"
                       THEN killedAttempts \cup {killRuns[killIdx].attempt}
                       ELSE killedAttempts
               /\ killMarked' = killMarked \cup {killRuns[killIdx].id}
               /\ killIdx' = killIdx + 1
               /\ UNCHANGED killPc
          ELSE /\ killPc' = "signal"
               /\ killIdx' = 1
               /\ UNCHANGED <<dbRuns, killRuns, killedAttempts, killMarked>>
    /\ UNCHANGED <<policy, waitOk, dbJobs, children, abortPc, sigPending,
                   killCount, killAllow, allowSignalled>>
    /\ UNCHANGED supVars
    /\ UNCHANGED <<timeVars, fnVars, cmdVars>>

\* kill(): for run in runs: os.kill(run.pid, signal_num); a pid that is gone
\* raises ProcessLookupError and the loop goes on.
kill_signal ==
    /\ killPc = "signal"
    /\ IF killIdx <= Len(killRuns)
          THEN /\ children' =
                    IF children[killRuns[killIdx].pid].st = "running"
                       THEN [children EXCEPT ![killRuns[killIdx].pid].signalled = TRUE]
                       ELSE children
               /\ allowSignalled' =
                    IF killAllow /\ children[killRuns[killIdx].pid].st = "running"
                       THEN allowSignalled \cup {killRuns[killIdx].attempt}
                       ELSE allowSignalled
               /\ killIdx' = killIdx + 1
               /\ UNCHANGED <<killPc, killRuns, killAllow, killMarked>>
          ELSE /\ killPc' = "idle"
               /\ killIdx' = 1
               /\ killRuns' = <<>>
               /\ killAllow' = FALSE
               /\ killMarked' = {}
               /\ UNCHANGED <<children, allowSignalled>>
    /\ UNCHANGED <<policy, waitOk, dbJobs, dbRuns, abortPc, sigPending, killCount,
                   killedAttempts>>
    /\ UNCHANGED supVars
    /\ UNCHANGED <<timeVars, fnVars, cmdVars>>

\* ------------------------------------------------------------------ spec

Next ==
    \/ core_run
    \/ build_job
    \/ run_job_setup
    \/ wait
    \/ wait_conditions_met
    \/ run_job_exhausted
    \/ run_job_bail
    \/ run_job_continue
    \/ retry_sleep
    \/ create_run
    \/ run_run_popen
    \/ run_run_save_running
    \/ run_run_job_running
    \/ run_run_wait
    \/ run_run_save_complete
    \/ run_run_job_complete
    \/ run_job_stop_abort
    \/ handle
    \/ signal_on_abort
    \/ \E p \in 1 .. Len(children) : child_exit(p)
    \/ \E allow_retries \in BOOLEAN : kill_select(allow_retries)
    \/ kill_mark
    \/ kill_signal

Spec == Init /\ [][Next]_vars

\* ------------------------------------------- the clock and the file system

tick ==
    /\ now < MaxTime
    /\ now' = now + 1
    /\ UNCHANGED <<files, timing, start_time>>
    /\ UNCHANGED <<waitVars, abortVars>>
    /\ UNCHANGED <<policy, waitOk, dbJobs, dbRuns, children, abortPc, sigPending>>
    /\ UNCHANGED <<supVars, killVars, fnVars, cmdVars>>

file_created(f) ==
    /\ f \notin files
    /\ files' = files \cup {f}
    /\ UNCHANGED <<now, timing, start_time>>
    /\ UNCHANGED <<waitVars, abortVars>>
    /\ UNCHANGED <<policy, waitOk, dbJobs, dbRuns, children, abortPc, sigPending>>
    /\ UNCHANGED <<supVars, killVars, fnVars, cmdVars>>

file_removed(f) ==
    /\ f \in files
    /\ files' = files \ {f}
    /\ UNCHANGED <<now, timing, start_time>>
    /\ UNCHANGED <<waitVars, abortVars>>
    /\ UNCHANGED <<policy, waitOk, dbJobs, dbRuns, children, abortPc, sigPending>>
    /\ UNCHANGED <<supVars, killVars, fnVars, cmdVars>>

\* `if d:` on an Optional[timedelta]: None and timedelta(0) are both false.
Truthy(d) == d # NULL /\ d # 0
Max(a, b) == IF a >= b THEN a ELSE b
Min(a, b) == IF a <= b THEN a ELSE b

\* ----------------------------------------------- the wait gate, statement
\* by statement (wait.py); pc runs "wait" -> "combine_waits" -> "wait_test"
\* -> "files_exist" | "wait_sleep" -> ... -> "loop".

\* A variant that takes the earlier of the two times.
combine_waits_min(wait_time, duration_time, t) ==
    Min(IF wait_time # NULL THEN wait_time ELSE t, duration_time)

\* combine_waits: max(wait_time or datetime.now(), wait_duration_time)
combine_waits(wait_time, duration_time, t) ==
    Max(IF wait_time # NULL THEN wait_time ELSE t, duration_time)

\* combine_waits: if wait_duration: now() + wait_duration, else now()
combine_waits_duration ==
    /\ pc = "wait" /\ ~sigPending
    /\ wait_duration_time' = IF Truthy(timing.wait_duration)
                                THEN now + timing.wait_duration ELSE now
    /\ pc' = "combine_waits"
    /\ UNCHANGED <<final_wait_time, waitNow, waitIdx, waitSeen>>
    /\ UNCHANGED <<now, files, timing, start_time, abortVars>>
    /\ UNCHANGED <<policy, waitOk, dbJobs, dbRuns, children, abortPc, sigPending,
                   job, run, attempt, exit_code>>
    /\ UNCHANGED <<killVars, fnVars, cmdVars>>

combine_waits_return ==
    /\ pc = "combine_waits" /\ ~sigPending
    /\ final_wait_time' = combine_waits(timing.wait_time, wait_duration_time, now)
    /\ pc' = "wait_test"
    /\ UNCHANGED <<wait_duration_time, waitNow, waitIdx, waitSeen>>
    /\ UNCHANGED <<now, files, timing, start_time, abortVars>>
    /\ UNCHANGED <<policy, waitOk, dbJobs, dbRuns, children, abortPc, sigPending,
                   job, run, attempt, exit_code>>
    /\ UNCHANGED <<killVars, fnVars, cmdVars>>

\* wait: the left operand of the loop test, datetime.now() >= final_wait_time;
\* `and` evaluates files_exist only when it is true.
wait_test ==
    /\ pc = "wait_test" /\ ~sigPending
    /\ waitNow' = now
    /\ waitIdx' = 1
    /\ waitSeen' = {}
    /\ pc' = IF now >= final_wait_time THEN "files_exist" ELSE "wait_sleep"
    /\ UNCHANGED <<wait_duration_time, final_wait_time>>
    /\ UNCHANGED <<now, files, timing, start_time, abortVars>>
    /\ UNCHANGED <<policy, waitOk, dbJobs, dbRuns, children, abortPc, sigPending,
                   job, run, attempt, exit_code>>
    /\ UNCHANGED <<killVars, fnVars, cmdVars>>

\* files_exist: None is True; one Path(f).exists() per step, False at the
\* first missing path, True after the last; True ends wait's loop.
files_exist ==
    /\ pc = "files_exist" /\ ~sigPending
    /\ IF waitIdx > Len(timing.wait_for_files)
          THEN /\ pc' = "loop"
               /\ UNCHANGED <<waitIdx, waitSeen>>
          ELSE IF timing.wait_for_files[waitIdx] \in files
                  THEN /\ waitSeen' = waitSeen \cup {timing.wait_for_files[waitIdx]}
                       /\ waitIdx' = waitIdx + 1
                       /\ UNCHANGED pc
                  ELSE /\ pc' = "wait_sleep"
                       /\ UNCHANGED <<waitIdx, waitSeen>>
    /\ UNCHANGED <<wait_duration_time, final_wait_time, waitNow>>
    /\ UNCHANGED <<now, files, timing, start_time, abortVars>>
    /\ UNCHANGED <<policy, waitOk, dbJobs, dbRuns, children, abortPc, sigPending,
                   job, run, attempt, exit_code>>
    /\ UNCHANGED <<killVars, fnVars, cmdVars>>

\* wait: time.sleep(POLL_SEC)
wait_sleep ==
    /\ pc = "wait_sleep" /\ ~sigPending
    /\ pc' = "wait_test"
    /\ UNCHANGED <<timeVars, policy, waitOk, dbJobs, dbRuns, children, abortPc,
                   sigPending, job, run, attempt, exit_code>>
    /\ UNCHANGED <<killVars, fnVars, cmdVars>>

\* The supervisor of a Job that has just been submitted with a wait policy:
\* build_job has returned, run_job is about to start.
Submitted ==
    /\ dbJobs = <<NoJob>> /\ dbRuns = <<>> /\ pc = "run_job" /\ job = NoJob
    /\ run = NoRun /\ attempt = 0 /\ exit_code = NULL /\ children = <<>>
    /\ abortPc = "off" /\ sigPending = FALSE /\ waitOk = TRUE
    /\ killPc = "idle" /\ killRuns = <<>> /\ killIdx = 1 /\ killCount = 0
    /\ killedAttempts = {} /\ killAllow = FALSE /\ killMarked = {}
    /\ allowSignalled = {}
    /\ now = 0 /\ start_time = 0
    /\ files \in SUBSET Paths
    /\ wait_duration_time = NULL /\ final_wait_time = NULL /\ waitNow = NULL
    /\ waitIdx = 1 /\ waitSeen = {}
    /\ monitor_start = NULL /\ final_abort_time = NULL /\ abortNow = NULL
    /\ abortIdx = 1 /\ abortHit = {}
    /\ hostOf = NoStore /\ runsOf = NoRuns /\ job_id = <<>>
    /\ killResult = NoResult
    /\ jobOf = NoJobs /\ logDirs = {} /\ dbFile = TRUE /\ stdioRoot = TRUE
    /\ NoCommand

WaitInit ==
    /\ Submitted
    /\ policy = [retry_attempts |-> NULL, retry_delay |-> FALSE,
                 success_codes |-> {0}, abort |-> FALSE]
    /\ timing \in [wait_time : TimeChoices, wait_duration : DurationChoices,
                   wait_for_files : FileChoices, abort_time : {NULL},
                   abort_duration : {NULL}, abort_for_files : {<<>>}]

WaitNext ==
    \/ run_job_setup
    \/ combine_waits_duration
    \/ combine_waits_return
    \/ wait_test
    \/ files_exist
    \/ wait_sleep
    \/ run_job_continue
    \/ create_run
    \/ tick
    \/ \E f \in Paths : file_created(f)
    \/ \E f \in Paths : file_removed(f)

WaitSpec == WaitInit /\ [][WaitNext]_vars

\* ------------------------------------------ the abort monitor, statement by
\* statement (abort.py); abortPc runs "polling" -> "abort_test" ->
\* "any_file_exists" | "os_kill" -> "abort_sleep" -> ... -> "sent".

\* A variant in which an absent component counts as due at once, as in
\* combine_waits.
combine_aborts_now(abort_time, abort_duration, t) ==
    Min(IF abort_time # NULL THEN abort_time ELSE t,
        IF Truthy(abort_duration) THEN t + abort_duration ELSE t)

\* combine_aborts: min(abort_time or datetime.max, now() + abort_duration if
\* abort_duration else datetime.max)
combine_aborts(abort_time, abort_duration, t) ==
    Min(IF abort_time # NULL THEN abort_time ELSE datetime_max,
        IF Truthy(abort_duration) THEN t + abort_duration ELSE datetime_max)

\* signal_on_abort: final_abort_time = combine_aborts(...)
abort_start ==
    /\ abortPc = "polling"
    /\ monitor_start' = now
    /\ final_abort_time' = combine_aborts(timing.abort_time, timing.abort_duration, now)
    /\ abortPc' = "abort_test"
    /\ UNCHANGED <<abortNow, abortIdx, abortHit>>
    /\ UNCHANGED <<now, files, timing, start_time, waitVars>>
    /\ UNCHANGED <<policy, waitOk, dbJobs, dbRuns, children, sigPending>>
    /\ UNCHANGED <<supVars, killVars, fnVars, cmdVars>>

\* signal_on_abort: the left operand of the loop test, datetime.now() >=
\* final_abort_time; `or` evaluates any_file_exists only when it is false.
abort_test ==
    /\ abortPc = "abort_test"
    /\ abortNow' = now
    /\ abortIdx' = 1
    /\ abortHit' = {}
    /\ abortPc' = IF now >= final_abort_time THEN "os_kill" ELSE "any_file_exists"
    /\ UNCHANGED <<monitor_start, final_abort_time>>
    /\ UNCHANGED <<now, files, timing, start_time, waitVars>>
    /\ UNCHANGED <<policy, waitOk, dbJobs, dbRuns, children, sigPending>>
    /\ UNCHANGED <<supVars, killVars, fnVars, cmdVars>>

\* any_file_exists: None is False; one Path(f).exists() per step, True at
\* the first path that exists, False after the last.
any_file_exists ==
    /\ abortPc = "any_file_exists"
    /\ IF abortIdx > Len(timing.abort_for_files)
          THEN /\ abortPc' = "abort_sleep"
               /\ UNCHANGED <<abortIdx, abortHit>>
          ELSE IF timing.abort_for_files[abortIdx] \in files
                  THEN /\ abortHit' = {timing.abort_for_files[abortIdx]}
                       /\ abortPc' = "os_kill"
                       /\ UNCHANGED abortIdx
                  ELSE /\ abortIdx' = abortIdx + 1
                       /\ UNCHANGED <<abortPc, abortHit>>
    /\ UNCHANGED <<monitor_start, final_abort_time, abortNow>>
    /\ UNCHANGED <<now, files, timing, start_time, waitVars>>
    /\ UNCHANGED <<policy, waitOk, dbJobs, dbRuns, children, sigPending>>
    /\ UNCHANGED <<supVars, killVars, fnVars, cmdVars>>

\* signal_on_abort: time.sleep(POLL_SEC)
abort_sleep ==
    /\ abortPc = "abort_sleep"
    /\ abortPc' = "abort_test"
    /\ UNCHANGED <<timeVars, policy, waitOk, dbJobs, dbRuns, children, sigPending>>
    /\ UNCHANGED <<supVars, killVars, fnVars, cmdVars>>

\* signal_on_abort: os.kill(pid, sig), and the monitor ends.
os_kill ==
    /\ abortPc = "os_kill"
    /\ sigPending' = TRUE
    /\ abortPc' = "sent"
    /\ UNCHANGED <<timeVars, policy, waitOk, dbJobs, dbRuns, children>>
    /\ UNCHANGED <<supVars, killVars, fnVars, cmdVars>>

\* A Job submitted with an abort policy and one retry.
AbortInit ==
    /\ Submitted
    /\ timing \in [wait_time : {NULL}, wait_duration : {NULL},
                   wait_for_files : {<<>>}, abort_time : TimeChoices,
                   abort_duration : DurationChoices,
                   abort_for_files : FileChoices]
    /\ policy = [retry_attempts |-> 1, retry_delay |-> FALSE,
                 success_codes |-> {0},
                 abort |-> (timing.abort_time # NULL \/ timing.abort_duration # NULL
                            \/ timing.abort_for_files # <<>>)]

AbortNext ==
    \/ run_job_setup
    \/ wait
    \/ run_job_exhausted
    \/ run_job_bail
    \/ run_job_continue
    \/ create_run
    \/ run_run_popen
    \/ run_run_save_running
    \/ run_run_job_running
    \/ run_run_wait
    \/ run_run_save_complete
    \/ run_run_job_complete
    \/ run_job_stop_abort
    \/ handle
    \/ \E p \in 1 .. Len(children) : child_exit(p)
    \/ abort_start
    \/ abort_test
    \/ any_file_exists
    \/ abort_sleep
    \/ os_kill
    \/ tick
    \/ \E f \in Paths : file_created(f)
    \/ \E f \in Paths : file_removed(f)

AbortSpec == AbortInit /\ [][AbortNext]_vars

\* ---------------------------------- kill() as a function of a store of
\* several Jobs (kill.py); a Run is named by <<job_id, attempt>>, and a Run
\* that is Running has a pid.

Ids(t) == {t[k] : k \in 1 .. Len(t)}

\* [j.job_id for j in jobs_q]: the requested Jobs of this host
existent_job_ids == {j \in JobIds : hostOf[j] = "this" /\ j \in Ids(job_id)}
IsNonexistent(jid) == jid \notin existent_job_ids
nonexistent_job_ids == SelectSeq(job_id, IsNonexistent)
\* the Runs of those Jobs with state Running and a pid
runs == {r \in JobIds \X (0 .. MaxRuns - 1) :
            /\ r[1] \in existent_job_ids
            /\ r[2] < Len(runsOf[r[1]])
            /\ runsOf[r[1]][r[2] + 1].state = RUNNING}
running_job_ids == {r[1] : r \in runs}
nonrunning_job_ids == existent_job_ids \ running_job_ids

\* A variant whose except branch does not `continue`.
killed_run_ids_no_continue(failed) == runs

\* the Runs whose os.kill did not raise
killed_run_ids(failed) == runs \ failed

\* kill(): the whole of one call; os.kill raises for the Runs in failed.
kill(allow_retries, failed) ==
    /\ ~killResult.returned
    /\ runsOf' = IF allow_retries THEN runsOf
                 ELSE [j \in JobIds |->
                          [k \in 1 .. Len(runsOf[j]) |->
                              IF <<j, k - 1>> \in runs
                                 THEN [runsOf[j][k] EXCEPT !.killed = TRUE]
                                 ELSE runsOf[j][k]]]
    /\ killResult' = [returned |-> TRUE,
                      nonexistent_job_ids |-> nonexistent_job_ids,
                      nonrunning_job_ids |-> nonrunning_job_ids,
                      killed_run_ids |-> killed_run_ids(failed),
                      failed_killed_run_ids |-> failed]
    /\ UNCHANGED <<hostOf, job_id>>
    /\ UNCHANGED <<policy, waitOk, dbJobs, dbRuns, children, abortPc, sigPending>>
    /\ UNCHANGED <<supVars, killVars, timeVars, cmdVars>>

\* Any store and any request; no supervisor is part of it.
KillInit ==
    /\ hostOf \in [JobIds -> {"none", "this", "other"}]
    /\ runsOf \in [JobIds -> RunSeqs]
    /\ \A j \in JobIds : hostOf[j] = "none" => runsOf[j] = <<>>
    /\ job_id \in Requests
    /\ killResult = NoResult
    /\ jobOf = NoJobs /\ logDirs = {} /\ dbFile = TRUE /\ stdioRoot = TRUE
    /\ NoCommand
    /\ policy = [retry_attempts |-> NULL, retry_delay |-> FALSE,
                 success_codes |-> {0}, abort |-> FALSE]
    /\ waitOk = TRUE /\ dbJobs = <<>> /\ dbRuns = <<>> /\ pc = "none"
    /\ job = NoJob /\ run = NoRun /\ attempt = 0 /\ exit_code = NULL
    /\ children = <<>> /\ abortPc = "off" /\ sigPending = FALSE
    /\ killPc = "idle" /\ killRuns = <<>> /\ killIdx = 1 /\ killCount = 0
    /\ killedAttempts = {} /\ killAllow = FALSE /\ killMarked = {}
    /\ allowSignalled = {}
    /\ now = 0 /\ start_time = 0 /\ files = {} /\ timing = NoTiming
    /\ wait_duration_time = NULL /\ final_wait_time = NULL /\ waitNow = NULL
    /\ waitIdx = 1 /\ waitSeen = {}
    /\ monitor_start = NULL /\ final_abort_time = NULL /\ abortNow = NULL
    /\ abortIdx = 1 /\ abortHit = {}

\* A variant that leaves the Runs whose signal failed out of the test.
display_kill_failed_no_runs ==
    \/ killResult.nonexistent_job_ids # <<>>
    \/ killResult.nonrunning_job_ids # {}

\* display_kill(): `failed`, the truth of the first non-empty list
display_kill_failed ==
    \/ killResult.nonexistent_job_ids # <<>>
    \/ killResult.nonrunning_job_ids # {}
    \/ killResult.failed_killed_run_ids # {}

\* display_kill(): after kill() has returned, the report and the exit code.
display_kill ==
    /\ killResult.returned
    /\ ~displayExit.returned
    /\ displayExit' = [returned |-> TRUE, raised |-> FALSE,
                       code |-> IF display_kill_failed THEN EX_DATAERR
                                ELSE EX_OK]
    /\ UNCHANGED <<supVars, killVars, timeVars, fnVars>>
    /\ UNCHANGED <<policy, waitOk, dbJobs, dbRuns, children, abortPc, sigPending>>
    /\ UNCHANGED <<storeVars, callVars, fieldVars, extVars>>

KillNext ==
    \/ \E allow_retries \in BOOLEAN, failed \in SUBSET runs :
          kill(allow_retries, failed)
    \/ display_kill

KillSpec == KillInit /\ [][KillNext]_vars

\* ---------------------------------------------------------------- purge
\* display_purge and purge of core/purge.py over a store of several Jobs, their
\* Runs and their log directories.

StartTimes == {0, 1}
SinceChoices == {NULL, 1}
UntilChoices == {NULL, 0}
CompleteRun == [state |-> COMPLETE, killed |-> FALSE]
\* A Job of the store has no Run yet, or two.
PurgeRunSeqs == {<<>>, <<CompleteRun, CompleteRun>>}
\* The requests of at most two ids, and those that name each id once.
PurgeRequests ==
    {r \in Requests :
        \/ Len(r) <= 2
        \/ \A m, n \in 1 .. Len(r) : r[m] = r[n] => m = n}

\* A variant that raises only when neither ids nor all is given.
purge_usage_error_neither(ids, _all) == ids = <<>> /\ ~_all

\* purge(): not (bool(job_id) ^ _all)
purge_usage_error(ids, _all) == ~((ids # <<>>) # _all)

\* purge(): jobs_q, the Jobs of this host that pass the filters given
purge_jobs_q(ids, since, until) ==
    {j \in JobIds :
        /\ hostOf[j] = "this"
        /\ ids # <<>> => j \in Ids(ids)
        /\ since # NULL => jobOf[j].start_time >= since
        /\ until # NULL => jobOf[j].start_time <= until}

\* A variant that takes only the Jobs in state Running for not complete.
purge_running_job_ids_running(ids, since, until) ==
    {j \in purge_jobs_q(ids, since, until) : jobOf[j].state = RUNNING}

\* purge(): the Jobs of jobs_q whose state is not COMPLETE
purge_running_job_ids(ids, since, until) ==
    {j \in purge_jobs_q(ids, since, until) : jobOf[j].state # COMPLETE}

\* purge(): the Jobs the loop hands to _delete_job
purge_purged_job_ids(ids, since, until) ==
    purge_jobs_q(ids, since, until) \ purge_running_job_ids(ids, since, until)

\* purge(): the requested ids in neither list, in the order of the request
purge_nonexistent_job_ids(ids, since, until) ==
    SelectSeq(ids, LAMBDA jid :
        jid \notin purge_purged_job_ids(ids, since, until) \cup
                   purge_running_job_ids(ids, since, until))

\* display_purge(): the code returned after the report
display_purge_code(_all, skipped) ==
    IF ~_all /\ skipped # {} THEN EX_DATAERR ELSE EX_OK

\* display_purge(): the whole of one call, purge() and _delete_job() included.
display_purge(ids, _all, metadata, since, until) ==
    /\ ~purgeResult.returned
    /\ IF purge_usage_error(ids, _all)
       THEN /\ purgeResult' = [NoPurge EXCEPT !.returned = TRUE,
                                  !.usage_error = TRUE, !.job_id = ids,
                                  !.all = _all, !.metadata = metadata,
                                  !.since = since, !.until = until]
            /\ displayExit' = [returned |-> TRUE, raised |-> TRUE,
                               code |-> NULL]
            /\ UNCHANGED <<hostOf, jobOf, runsOf, logDirs>>
       ELSE LET purged == purge_purged_job_ids(ids, since, until)
                skipped == purge_running_job_ids(ids, since, until)
            IN /\ logDirs' = logDirs \ {j \in purged : runsOf[j] # <<>>}
               /\ hostOf' = [j \in JobIds |->
                                IF metadata /\ j \in purged THEN "none"
                                ELSE hostOf[j]]
               /\ jobOf' = [j \in JobIds |->
                               IF metadata /\ j \in purged THEN NoJobRow
                               ELSE jobOf[j]]
               /\ runsOf' = [j \in JobIds |->
                                IF metadata /\ j \in purged THEN <<>>
                                ELSE runsOf[j]]
               /\ purgeResult' =
                      [returned |-> TRUE, usage_error |-> FALSE,
                       job_id |-> ids, all |-> _all, metadata |-> metadata,
                       since |-> since, until |-> until,
                       nonexistent_job_ids |->
                           purge_nonexistent_job_ids(ids, since, until),
                       purged_job_ids |-> purged,
                       skipped_job_ids |-> skipped]
               /\ displayExit' = [returned |-> TRUE, raised |-> FALSE,
                                  code |-> display_purge_code(_all, skipped)]
    /\ UNCHANGED <<job_id, killResult, dbFile, stdioRoot>>
    /\ UNCHANGED <<statusResult, lsResult, resetDone>>
    /\ UNCHANGED <<policy, waitOk, dbJobs, dbRuns, children, abortPc, sigPending>>
    /\ UNCHANGED <<supVars, killVars, timeVars, fieldVars, extVars>>

\* No supervisor is part of the specifications of the commands.
NoSupervisor ==
    /\ policy = [retry_attempts |-> NULL, retry_delay |-> FALSE,
                 success_codes |-> {0}, abort |-> FALSE]
    /\ waitOk = TRUE /\ dbJobs = <<>> /\ dbRuns = <<>> /\ pc = "none"
    /\ job = NoJob /\ run = NoRun /\ attempt = 0 /\ exit_code = NULL
    /\ children = <<>> /\ abortPc = "off" /\ sigPending = FALSE
    /\ killPc = "idle" /\ killRuns = <<>> /\ killIdx = 1 /\ killCount = 0
    /\ killedAttempts = {} /\ killAllow = FALSE /\ killMarked = {}
    /\ allowSignalled = {}
    /\ now = 0 /\ start_time = 0 /\ files = {} /\ timing = NoTiming
    /\ wait_duration_time = NULL /\ final_wait_time = NULL /\ waitNow = NULL
    /\ waitIdx = 1 /\ waitSeen = {}
    /\ monitor_start = NULL /\ final_abort_time = NULL /\ abortNow = NULL
    /\ abortIdx = 1 /\ abortHit = {}

\* Any store: each id has no Job, or a Job of this or another host in any
\* state, with its Runs; a log directory exists only for a Job that has Runs.
PurgeInit ==
    /\ hostOf \in [JobIds -> {"none", "this", "other"}]
    /\ jobOf \in [JobIds -> [state : {SUBMITTED, RUNNING, COMPLETE},
                              exit_code : {NULL}, start_time : StartTimes]]
    /\ runsOf \in [JobIds -> PurgeRunSeqs]
    /\ logDirs \in SUBSET {j \in JobIds : runsOf[j] # <<>>}
    /\ \A j \in JobIds : hostOf[j] = "none" =>
                              jobOf[j] = NoJobRow /\ runsOf[j] = <<>>
    /\ job_id = <<>> /\ killResult = NoResult
    /\ dbFile = TRUE /\ stdioRoot = TRUE
    /\ NoCommand
    /\ NoSupervisor

PurgeNext ==
    \E ids \in PurgeRequests, _all \in BOOLEAN, metadata \in BOOLEAN,
       since \in SinceChoices, until \in UntilChoices :
        display_purge(ids, _all, metadata, since, until)

PurgeSpec == PurgeInit /\ [][PurgeNext]_vars

\* ------------------------------------------------------- status and ls
\* display_status and status of core/status.py, and ls of core/ls.py; neither
\* writes to the store.

RunningRun == [state |-> RUNNING, killed |-> FALSE]
\* A Job of the store has no Run yet, one that is Running, or two Complete.
QueryRunSeqs == {<<>>, <<RunningRun>>, <<CompleteRun, CompleteRun>>}

\* The Runs of a set of Jobs, each named by job id and attempt.
RunsOfJobs(js) == {r \in js \X (0 .. 1) : r[2] < Len(runsOf[r[1]])}

\* status(): jobs, the requested Jobs of this host
status_jobs(ids) == {j \in JobIds : hostOf[j] = "this" /\ j \in Ids(ids)}

\* status(): runs, the Runs joined to a Job whose id was requested
status_runs(ids, no_runs) ==
    IF no_runs THEN {}
    ELSE RunsOfJobs({j \in JobIds : hostOf[j] # "none" /\ j \in Ids(ids)})

\* display_status(): the requested ids that no returned Job carries
not_found_job_ids(ids) == Ids(ids) \ status_jobs(ids)

\* display_status(): the table of a found Job reads job.success_code for an
\* exit code that is set and for a completed Run, and job.pretty by names that
\* are not fields of Job when all_ is given; Job has neither.
display_status_raises(ids, no_runs, all_) ==
    \E j \in status_jobs(ids) :
        \/ jobOf[j].exit_code # NULL
        \/ all_
        \/ \E r \in status_runs(ids, no_runs) :
              r[1] = j /\ runsOf[j][r[2] + 1].state = COMPLETE

\* display_status(): the whole of one call, status() included.
display_status(ids, no_runs, all_) ==
    /\ ~statusResult.returned
    /\ statusResult' = [returned |-> TRUE, job_id |-> ids,
                        no_runs |-> no_runs, all |-> all_,
                        jobs |-> status_jobs(ids),
                        runs |-> status_runs(ids, no_runs),
                        not_found_job_ids |-> not_found_job_ids(ids)]
    /\ displayExit' =
          IF display_status_raises(ids, no_runs, all_)
             THEN [returned |-> TRUE, raised |-> TRUE, code |-> NULL]
             ELSE [returned |-> TRUE, raised |-> FALSE,
                   code |-> IF not_found_job_ids(ids) # {}
                               THEN EX_UNAVAILABLE ELSE EX_OK]
    /\ UNCHANGED <<fnVars, storeVars, purgeResult, lsResult, resetDone>>
    /\ UNCHANGED <<policy, waitOk, dbJobs, dbRuns, children, abortPc, sigPending>>
    /\ UNCHANGED <<supVars, killVars, timeVars, fieldVars, extVars>>

\* Any store: each id has no Job, or a Job of this or another host in any
\* state, with or without an exit code, and its Runs.
QueryInit ==
    /\ hostOf \in [JobIds -> {"none", "this", "other"}]
    /\ jobOf \in [JobIds -> [state : {SUBMITTED, RUNNING, COMPLETE},
                              exit_code : {NULL, 0}, start_time : {0}]]
    /\ runsOf \in [JobIds -> QueryRunSeqs]
    /\ \A j \in JobIds : hostOf[j] = "none" =>
                              jobOf[j] = NoJobRow /\ runsOf[j] = <<>>
    /\ logDirs = {}
    /\ job_id = <<>> /\ killResult = NoResult
    /\ dbFile = TRUE /\ stdioRoot = TRUE
    /\ NoCommand
    /\ NoSupervisor

StatusNext ==
    \E ids \in PurgeRequests, no_runs \in BOOLEAN, all_ \in BOOLEAN :
        display_status(ids, no_runs, all_)

StatusSpec == QueryInit /\ [][StatusNext]_vars

\* A variant whose state filter keeps only the Running Jobs.
ls_jobs_running(all_) ==
    {j \in JobIds : hostOf[j] = "this" /\ (all_ \/ jobOf[j].state = RUNNING)}

\* ls(): jobs, the Jobs of this host, active ones only unless all_
ls_jobs(all_) ==
    {j \in JobIds :
        /\ hostOf[j] = "this"
        /\ all_ \/ jobOf[j].state \in {SUBMITTED, RUNNING}}

\* ls(): runs, the Runs joined to one of the Jobs returned
ls_runs(all_, show_runs) ==
    IF show_runs THEN RunsOfJobs(ls_jobs(all_)) ELSE {}

\* ls(): the whole of one call.
ls(all_, show_runs) ==
    /\ ~lsResult.returned
    /\ lsResult' = [returned |-> TRUE, all |-> all_, show_runs |-> show_runs,
                    jobs |-> ls_jobs(all_), runs |-> ls_runs(all_, show_runs)]
    /\ UNCHANGED <<fnVars, storeVars, purgeResult, statusResult, resetDone>>
    /\ UNCHANGED <<policy, waitOk, dbJobs, dbRuns, children, abortPc, sigPending>>
    /\ UNCHANGED <<supVars, killVars, timeVars, fieldVars, displayExit, extVars>>

LsNext == \E all_ \in BOOLEAN, show_runs \in BOOLEAN : ls(all_, show_runs)

LsSpec == QueryInit /\ [][LsNext]_vars

\* ---------------------------------------------------------------- reset
\* reset of core/reset.py.

\* A variant that does not remove the tree under the stdio root.
reset_stdio_keep(dirs) == dirs

\* reset(): mkdir(parents, exist_ok), rmtree and mkdir leave an empty root
reset_stdio(dirs) == {}

\* reset(): the whole of one call; the store file is unlinked and
\* init_db_models creates it again with the tables of Job and Run.
reset ==
    /\ ~resetDone
    /\ dbFile' = TRUE
    /\ hostOf' = NoStore /\ jobOf' = NoJobs /\ runsOf' = NoRuns
    /\ stdioRoot' = TRUE
    /\ logDirs' = reset_stdio(logDirs)
    /\ resetDone' = TRUE
    /\ UNCHANGED <<job_id, killResult, purgeResult, statusResult, lsResult>>
    /\ UNCHANGED <<policy, waitOk, dbJobs, dbRuns, children, abortPc, sigPending>>
    /\ UNCHANGED <<supVars, killVars, timeVars, fieldVars, displayExit, extVars>>

\* Any prior state: the store file and the stdio root may each be missing;
\* without the file there is no Job, without the root no log directory.
ResetInit ==
    /\ dbFile \in BOOLEAN /\ stdioRoot \in BOOLEAN
    /\ hostOf \in [JobIds -> {"none", "this", "other"}]
    /\ jobOf \in [JobIds -> [state : {SUBMITTED, RUNNING, COMPLETE},
                              exit_code : {NULL, 0}, start_time : {0}]]
    /\ runsOf \in [JobIds -> QueryRunSeqs]
    /\ logDirs \in SUBSET JobIds
    /\ \A j \in JobIds : hostOf[j] = "none" =>
                              jobOf[j] = NoJobRow /\ runsOf[j] = <<>>
    /\ ~dbFile => hostOf = NoStore
    /\ ~stdioRoot => logDirs = {}
    /\ job_id = <<>> /\ killResult = NoResult
    /\ NoCommand
    /\ NoSupervisor

ResetNext == reset

ResetSpec == ResetInit /\ [][ResetNext]_vars

\* ---------------------------------------------------------- list fields
\* TextTupleField of models.py: a list is stored as one text column, its
\* elements joined by the delimiter. A string is a sequence of characters.

MaxStr == 2
MaxList == 2
delim == "|"
Chars == {"a", delim}
Strings == UNION {[1 .. n -> Chars] : n \in 0 .. MaxStr}
Lists == UNION {[1 .. n -> Strings] : n \in 0 .. MaxList}

\* delim in i
HasDelim(str) == \E k \in 1 .. Len(str) : str[k] = delim

\* delim.join(value_str)
RECURSIVE Join(_)
Join(l) == IF l = <<>> THEN <<>>
           ELSE IF Len(l) = 1 THEN l[1]
           ELSE l[1] \o <<delim>> \o Join(Tail(l))

\* value.split(delim): one element more than there are delimiters
RECURSIVE Split(_)
Split(text) ==
    IF ~HasDelim(text) THEN <<text>>
    ELSE LET k == CHOOSE m \in 1 .. Len(text) :
                      text[m] = delim /\ \A n \in 1 .. m - 1 : text[n] # delim
         IN <<SubSeq(text, 1, k - 1)>> \o Split(SubSeq(text, k + 1, Len(text)))

\* A variant without the test for the delimiter.
db_value_unchecked(value) ==
    IF value = <<>> THEN [error |-> FALSE, column |-> NoColumn]
    ELSE [error |-> FALSE, column |-> [null |-> FALSE, text |-> Join(value)]]

\* TextTupleField.db_value(): None for a value that is not truthy, ValueError
\* for an element with the delimiter, else the joined text
db_value(value) ==
    IF value = <<>> THEN [error |-> FALSE, column |-> NoColumn]
    ELSE IF \E k \in 1 .. Len(value) : HasDelim(value[k])
            THEN [error |-> TRUE, column |-> NoColumn]
    ELSE [error |-> FALSE, column |-> [null |-> FALSE, text |-> Join(value)]]

\* TextTupleField.python_value(): None for NULL, else the split text
python_value(column) ==
    IF column.null THEN [done |-> TRUE, none |-> TRUE, list |-> <<>>]
    ELSE [done |-> TRUE, none |-> FALSE, list |-> Split(column.text)]

\* Saving a row with this value for the field: db_value() runs before the
\* statement, so an exception leaves the column as it was.
save(value) ==
    /\ fieldOutcome = "none"
    /\ fieldValue' = value
    /\ IF db_value(value).error
       THEN fieldOutcome' = "ValueError" /\ UNCHANGED dbValue
       ELSE fieldOutcome' = "saved" /\ dbValue' = db_value(value).column
    /\ UNCHANGED <<fieldRead, fnVars, storeVars, callVars, displayExit>>
    /\ UNCHANGED <<policy, waitOk, dbJobs, dbRuns, children, abortPc, sigPending>>
    /\ UNCHANGED <<supVars, killVars, timeVars, extVars>>

\* Selecting the row again.
read ==
    /\ fieldOutcome # "none"
    /\ ~fieldRead.done
    /\ fieldRead' = python_value(dbValue)
    /\ UNCHANGED <<fieldValue, dbValue, fieldOutcome>>
    /\ UNCHANGED <<fnVars, storeVars, callVars, displayExit>>
    /\ UNCHANGED <<policy, waitOk, dbJobs, dbRuns, children, abortPc, sigPending>>
    /\ UNCHANGED <<supVars, killVars, timeVars, extVars>>

\* The column holds NULL or what an earlier save stored.
FieldInit ==
    /\ fieldValue = <<>>
    /\ dbValue \in {db_value(v).column : v \in {l \in Lists : ~db_value(l).error}}
    /\ fieldOutcome = "none"
    /\ fieldRead = NoRead
    /\ purgeResult = NoPurge /\ statusResult = NoStatus /\ lsResult = NoLs
    /\ resetDone = FALSE /\ displayExit = NoExit
    /\ hostOf = NoStore /\ runsOf = NoRuns /\ job_id = <<>>
    /\ killResult = NoResult
    /\ jobOf = NoJobs /\ logDirs = {} /\ dbFile = TRUE /\ stdioRoot = TRUE
    /\ NoExt
    /\ NoSupervisor

FieldNext ==
    \/ \E value \in Lists : save(value)
    \/ read

FieldSpec == FieldInit /\ [][FieldNext]_vars

\* --------------------------------------------------- install-completions
\* install_completions of core/install_completions.py on the rc file of one
\* supported shell. The file's text is a sequence of characters: "x" for an
\* ordinary one, "nl" for a newline, "e" for the eval command of the
\* completion script and "F" for COMPLETION_FLAG.

MaxText == 2
MaxCalls == 3
COMPLETION_FLAG == "F"
completion_script == <<"e", COMPLETION_FLAG>>
ShellNames == {"bash", "tcsh"}
COMPLETION_SUPPORTED_SHELLS == {"bash"}
RcTexts == UNION {[1 .. n -> {"x", "nl"}] : n \in 0 .. MaxText}

\* _search(): flag in fp.read(), for a file that open() found
search_(text) == \E k \in 1 .. Len(text) : text[k] = COMPLETION_FLAG

\* _append(): fp.write(text + "\n") at the end of the file, created if missing
append_(text, f) == [exists |-> TRUE, text |-> f.text \o text \o <<"nl">>]

\* install_completions(): the whole of one call. open(f, "r") in _search
\* raises FileNotFoundError for a missing file, before anything is written.
install_completions(shell_name) ==
    /\ Len(installLog) < MaxCalls
    /\ IF shell_name \notin COMPLETION_SUPPORTED_SHELLS
       THEN /\ installLog' = Append(installLog, "JobmanError")
            /\ UNCHANGED rcFile
       ELSE IF ~rcFile.exists
       THEN /\ installLog' = Append(installLog, "FileNotFoundError")
            /\ UNCHANGED rcFile
       ELSE IF search_(rcFile.text)
       THEN /\ installLog' = Append(installLog, "already_installed")
            /\ UNCHANGED rcFile
       ELSE /\ installLog' = Append(installLog, "installed")
            /\ rcFile' = append_(completion_script, rcFile)
    /\ UNCHANGED <<restVars, hostOf, runsOf, jobOf, logDirs>>
    /\ UNCHANGED <<nohupVars, submitResult, notified, gcResult, delayVars,
                   raceVars>>

\* The rc file is missing, empty, or holds text without the sentinel.
InstallInit ==
    /\ rcFile \in {NoFile} \cup [exists : {TRUE}, text : RcTexts]
    /\ installLog = <<>>
    /\ procs = NoProcs /\ nohupPc = NoPcs /\ submitResult = NoSubmit
    /\ notified = {} /\ gcResult = "none" /\ delayPolicy = NoDelay
    /\ slept = <<>> /\ deleting = {} /\ storeErrors = {}
    /\ purgeResult = NoPurge /\ statusResult = NoStatus /\ lsResult = NoLs
    /\ resetDone = FALSE /\ displayExit = NoExit
    /\ fieldValue = <<>> /\ dbValue = NoColumn /\ fieldOutcome = "none"
    /\ fieldRead = NoRead
    /\ hostOf = NoStore /\ runsOf = NoRuns /\ job_id = <<>>
    /\ killResult = NoResult
    /\ jobOf = NoJobs /\ logDirs = {} /\ dbFile = TRUE /\ stdioRoot = TRUE
    /\ NoSupervisor

InstallNext == \E shell_name \in ShellNames : install_completions(shell_name)

InstallSpec == InstallInit /\ [][InstallNext]_vars

\* --------------------------------------------------------------- detach
\* nohupify of core/supervisor/nohup.py. Process 1 calls it, process 2 is the
\* child of the first fork and process 3 the child of the second. A process
\* has a session (sid; 0 is the session of the shell that started process 1),
\* a process group, possibly a controlling terminal, and the standard streams
\* of sys that are still those it was started with.

Streams == {"stdin", "stdout", "stderr"}

\* nohupify(): sys.stdout, sys.stderr and sys.stdin are opened on os.devnull
nohup_redirect ==
    /\ nohupPc[1] = "redirect"
    /\ procs' = [procs EXCEPT ![1].streams = {}]
    /\ nohupPc' = [nohupPc EXCEPT ![1] = "fork1"]
    /\ UNCHANGED <<restVars, hostOf, runsOf, jobOf, logDirs>>
    /\ UNCHANGED <<installVars, submitResult, notified, gcResult, delayVars,
                   raceVars>>

\* os.fork() in process p: the child c is a copy of p, in p's session and
\* group and with p's controlling terminal; or fork fails and p raises.
nohup_fork(p, c, parent_pc, child_pc) ==
    /\ \E ok \in BOOLEAN :
          IF ok THEN /\ procs' = [procs EXCEPT ![c] = procs[p]]
                     /\ nohupPc' = [nohupPc EXCEPT ![p] = parent_pc,
                                                    ![c] = child_pc]
                ELSE /\ nohupPc' = [nohupPc EXCEPT ![p] = "JobmanError"]
                     /\ UNCHANGED procs
    /\ UNCHANGED <<restVars, hostOf, runsOf, jobOf, logDirs>>
    /\ UNCHANGED <<installVars, submitResult, notified, gcResult, delayVars,
                   raceVars>>

nohup_fork1 == nohupPc[1] = "fork1" /\ nohup_fork(1, 2, "exit", "setsid")

nohup_fork2 == nohupPc[2] = "fork2" /\ nohup_fork(2, 3, "exit", "returned")

\* if pid != 0: os._exit(0)
nohup_exit(p) ==
    /\ nohupPc[p] = "exit"
    /\ procs' = [procs EXCEPT ![p].alive = FALSE]
    /\ nohupPc' = [nohupPc EXCEPT ![p] = "exited"]
    /\ UNCHANGED <<restVars, hostOf, runsOf, jobOf, logDirs>>
    /\ UNCHANGED <<installVars, submitResult, notified, gcResult, delayVars,
                   raceVars>>

\* A variant in which the child stays in the session it was forked in.
setsid_stay(p) == procs[p]

\* os.setsid(): the caller, not a group leader, becomes the leader of a new
\* session and of a new group, without a controlling terminal
setsid(p) == [procs[p] EXCEPT !.sid = p, !.pgid = p, !.ctty = FALSE]

nohup_setsid ==
    /\ nohupPc[2] = "setsid"
    /\ procs' = [procs EXCEPT ![2] = setsid(2)]
    /\ nohupPc' = [nohupPc EXCEPT ![2] = "fork2"]
    /\ UNCHANGED <<restVars, hostOf, runsOf, jobOf, logDirs>>
    /\ UNCHANGED <<installVars, submitResult, notified, gcResult, delayVars,
                   raceVars>>

\* The caller is in the shell's session or leads its own, leads its group or
\* not, with or without a controlling terminal, and with any of its standard
\* streams on that terminal.
NohupInit ==
    /\ procs \in {[NoProcs EXCEPT ![1] = q] :
                    q \in {r \in [alive : {TRUE}, sid : {0, 1}, pgid : {0, 1},
                                  ctty : BOOLEAN, streams : SUBSET Streams] :
                              r.sid = 1 => r.pgid = 1}}
    /\ nohupPc = [NoPcs EXCEPT ![1] = "redirect"]
    /\ rcFile = NoFile /\ installLog = <<>> /\ submitResult = NoSubmit
    /\ notified = {} /\ gcResult = "none" /\ delayPolicy = NoDelay
    /\ slept = <<>> /\ deleting = {} /\ storeErrors = {}
    /\ purgeResult = NoPurge /\ statusResult = NoStatus /\ lsResult = NoLs
    /\ resetDone = FALSE /\ displayExit = NoExit
    /\ fieldValue = <<>> /\ dbValue = NoColumn /\ fieldOutcome = "none"
    /\ fieldRead = NoRead
    /\ hostOf = NoStore /\ runsOf = NoRuns /\ job_id = <<>>
    /\ killResult = NoResult
    /\ jobOf = NoJobs /\ logDirs = {} /\ dbFile = TRUE /\ stdioRoot = TRUE
    /\ NoSupervisor

NohupNext ==
    \/ nohup_redirect
    \/ nohup_fork1
    \/ nohup_setsid
    \/ nohup_fork2
    \/ \E p \in 1 .. 2 : nohup_exit(p)

NohupSpec == NohupInit /\ [][NohupNext]_vars

\* --------------------------------------------------------------- submit
\* build_job of core/supervisor/run.py over the store of several Jobs.

\* build_job(): the Job built, before it is saved
SubmittedJob == [state |-> SUBMITTED, exit_code |-> NULL, start_time |-> 0]

\* build_job(): the whole of one call.  _generate_random_job_id() draws jid
\* once; job.save() inserts the row, and the unique index on job_id refuses
\* an id that any Job of the store has, whichever its host (IntegrityError).
submit_job(jid) ==
    /\ ~submitResult.returned
    /\ IF hostOf[jid] # "none"
       THEN /\ submitResult' = [returned |-> TRUE, raised |-> TRUE,
                                job_id |-> jid]
            /\ UNCHANGED <<hostOf, jobOf>>
       ELSE /\ hostOf' = [hostOf EXCEPT ![jid] = "this"]
            /\ jobOf' = [jobOf EXCEPT ![jid] = SubmittedJob]
            /\ submitResult' = [returned |-> TRUE, raised |-> FALSE,
                                job_id |-> jid]
    /\ UNCHANGED <<runsOf, logDirs, restVars>>
    /\ UNCHANGED <<installVars, nohupVars, notified, gcResult, delayVars, raceVars>>

SubmitNext == \E jid \in JobIds : submit_job(jid)

SubmitSpec == QueryInit /\ [][SubmitNext]_vars

\* ------------------------------------------------------------------- gc
\* bg_gc_logs and gc_logs of gc.py, started by cli_exec of cli.py before the
\* commands that read the store; ls stands for these commands.

\* gc_logs(): datetime.today() - gc_expiry, on the scale of StartTimes
gc_until == 0

\* bg_gc_logs(): multiprocessing.Process(target=gc_logs, ...).start()
bg_gc_logs ==
    /\ gcResult = "none"
    /\ gcResult' = "started"
    /\ UNCHANGED <<hostOf, runsOf, jobOf, logDirs, restVars>>
    /\ UNCHANGED <<installVars, nohupVars, submitResult, notified, delayVars, raceVars>>

\* gc_logs(), in the process started: its first statement reads
\* config.gc_expiry, which JobmanConfig does not have (the field is
\* gc_expiry_days), so the process ends with AttributeError before purge is
\* called.
gc_logs ==
    /\ gcResult = "started"
    /\ gcResult' = "AttributeError"
    /\ UNCHANGED <<hostOf, runsOf, jobOf, logDirs, restVars>>
    /\ UNCHANGED <<installVars, nohupVars, submitResult, notified, delayVars, raceVars>>

\* cli_exec(): bg_gc_logs(config, logger), then fn(...)
cli_exec_ls(all_, show_runs) ==
    /\ gcResult # "none"
    /\ ls(all_, show_runs)

GcNext ==
    \/ bg_gc_logs
    \/ gc_logs
    \/ \E all_ \in BOOLEAN, show_runs \in BOOLEAN : cli_exec_ls(all_, show_runs)

GcSpec == PurgeInit /\ [][GcNext]_vars

\* ---------------------------------------------------------- retry delay
\* get_delay_secs of core/supervisor/run.py and the statement of run_job that
\* sleeps.  Durations are counted in tenths of a second, so that a tenth of a
\* delay of whole seconds is a whole number.

MaxDelay == 2
\* --retry-delay: strptimedelta() takes digits only, whole seconds from 0 up
DelayChoices == {NULL} \cup 0 .. MaxDelay

\* A variant whose exponent is the attempt itself.
expo_factor_attempt(n, retry_expo_backoff) ==
    IF retry_expo_backoff THEN 2 ^ n ELSE 1

\* get_delay_secs(): expo_factor
expo_factor(n, retry_expo_backoff) ==
    IF retry_expo_backoff THEN 2 ^ (n - 1) ELSE 1

\* get_delay_secs(): the values random.uniform(-max_jitter, max_jitter) can
\* return, max_jitter a tenth of the base delay
jitter_secs(retry_delay, retry_jitter) ==
    IF retry_jitter THEN (0 - retry_delay) .. retry_delay ELSE {0}

\* get_delay_secs(): expo_factor * base_delay_secs + jitter_secs
get_delay_secs(retry_delay, n, retry_expo_backoff, jitter) ==
    expo_factor(n, retry_expo_backoff) * (10 * retry_delay) + jitter

\* run_job(): if attempt != 0 and job.retry_delay; None and timedelta(0) are
\* both false
delay_wanted(n) ==
    n # 0 /\ delayPolicy.retry_delay # NULL /\ delayPolicy.retry_delay # 0

\* run_job(): the head of one turn of the loop, up to the Run's creation; the
\* turn is that of attempt Len(slept).
run_job_delay ==
    /\ Len(slept) <= MaxRetry
    /\ LET n == Len(slept)
       IN IF delay_wanted(n)
          THEN \E jitter \in jitter_secs(delayPolicy.retry_delay,
                                         delayPolicy.retry_jitter) :
                  slept' = Append(slept,
                      [slept |-> TRUE,
                       tenths |-> get_delay_secs(delayPolicy.retry_delay, n,
                                      delayPolicy.retry_expo_backoff, jitter)])
          ELSE slept' = Append(slept, [slept |-> FALSE, tenths |-> 0])
    /\ UNCHANGED <<hostOf, runsOf, jobOf, logDirs, restVars>>
    /\ UNCHANGED <<installVars, nohupVars, submitResult, notified, gcResult,
                   delayPolicy, raceVars>>

DelayInit ==
    /\ delayPolicy \in [retry_delay : DelayChoices,
                        retry_expo_backoff : BOOLEAN, retry_jitter : BOOLEAN]
    /\ slept = <<>>
    /\ rcFile = NoFile /\ installLog = <<>>
    /\ procs = NoProcs /\ nohupPc = NoPcs
    /\ submitResult = NoSubmit /\ notified = {} /\ gcResult = "none"
    /\ deleting = {} /\ storeErrors = {}
    /\ hostOf = NoStore /\ jobOf = NoJobs /\ runsOf = NoRuns /\ logDirs = {}
    /\ job_id = <<>> /\ killResult = NoResult
    /\ dbFile = TRUE /\ stdioRoot = TRUE
    /\ purgeResult = NoPurge /\ statusResult = NoStatus /\ lsResult = NoLs
    /\ resetDone = FALSE
    /\ fieldValue = <<>> /\ dbValue = NoColumn /\ fieldOutcome = "none"
    /\ fieldRead = NoRead
    /\ displayExit = NoExit
    /\ NoSupervisor

DelayNext == run_job_delay

DelaySpec == DelayInit /\ [][DelayNext]_vars

\* ------------------------------------------------- purge and supervisor
\* purge of core/purge.py run once, with --all, beside the supervisor of the
\* one Job of the store.

\* The id of the Job that build_job inserted.
live_job_id == "j1"

\* purge(): the Jobs of jobs_q, the one Job of the store if it is there
live_jobs_q == IF dbJobs = <<>> THEN {} ELSE {live_job_id}

\* purge(): the Jobs of jobs_q whose state is not COMPLETE
live_running_job_ids == {j \in live_jobs_q : dbJobs[1].state # COMPLETE}

\* purge(): the Jobs the loop hands to _delete_job
live_purged_job_ids == live_jobs_q \ live_running_job_ids

\* purge(job_id=(), _all=True, metadata=False): the Job is skipped unless its
\* row says COMPLETE; _delete_job removes the log directory of a Job that has
\* Runs.
purge_live ==
    /\ ~purgeResult.returned
    /\ purgeResult' = [NoPurge EXCEPT !.returned = TRUE, !.all = TRUE,
                          !.purged_job_ids = live_purged_job_ids,
                          !.skipped_job_ids = live_running_job_ids]
    /\ logDirs' = logDirs \ {j \in live_purged_job_ids : dbRuns # <<>>}
    /\ UNCHANGED <<policy, waitOk, dbJobs, dbRuns, children, abortPc, sigPending>>
    /\ UNCHANGED <<supVars, killVars, timeVars, fnVars>>
    /\ UNCHANGED <<jobOf, dbFile, stdioRoot, statusResult, lsResult, resetDone>>
    /\ UNCHANGED <<fieldVars, displayExit, extVars>>

RaceNext ==
    \/ Next
    \/ purge_live

RaceSpec == Init /\ [][RaceNext]_vars

\* ---------------------------------------------------- referential integrity
\* The statements that write the tables of Job and Run, one step each, in any
\* order: the saves of supervisors and of kill, and purge with metadata.  The
\* store is opened with foreign_keys = 1 and Run.job references Job.job_id
\* with no ON DELETE clause, so a statement that would leave a Run without
\* its Job fails with IntegrityError.

MaxRows == 1
RunRows == [state : {SUBMITTED, RUNNING, COMPLETE}, killed : BOOLEAN]
CascadeRunSeqs == UNION {[1 .. n -> RunRows] : n \in 0 .. MaxRows}

\* A variant of the store that does not enforce the reference on INSERT.
parent_exists_unchecked(j) == TRUE

\* FOREIGN KEY (job_id) REFERENCES job (job_id), on INSERT of a Run
parent_exists(j) == hostOf[j] # "none"

\* The same reference, on DELETE of a Job: no Run may refer to it
has_children(j) == runsOf[j] # <<>>

\* run_job(): run = Run(job_id=job.job_id, ..., state=SUBMITTED,
\* killed=False); run.save(), and the mkdir of run_run that follows.  The
\* supervisor holds the Job object, whether or not the row is still there.
insert_run(j) ==
    /\ Len(runsOf[j]) < MaxRows
    /\ IF parent_exists(j)
       THEN /\ runsOf' = [runsOf EXCEPT ![j] =
                             Append(@, [state |-> SUBMITTED, killed |-> FALSE])]
            /\ logDirs' = logDirs \cup {j}
            /\ UNCHANGED storeErrors
       ELSE /\ storeErrors' = storeErrors \cup {"insert"}
            /\ UNCHANGED <<runsOf, logDirs>>
    /\ UNCHANGED <<hostOf, jobOf, deleting, restVars>>
    /\ UNCHANGED <<installVars, nohupVars, submitResult, notified, gcResult, delayVars>>

\* run_run(): run.state = ...; run.save(), and kill(): run.killed = True;
\* run.save(): an UPDATE by row id, of no effect when the row is gone.
save_run(j, k, row) ==
    /\ k \in 1 .. Len(runsOf[j])
    /\ runsOf[j][k] # row
    /\ runsOf' = [runsOf EXCEPT ![j][k] = row]
    /\ UNCHANGED <<hostOf, jobOf, logDirs, restVars>>
    /\ UNCHANGED <<installVars, nohupVars, submitResult, notified, gcResult,
                   delayVars, raceVars>>

\* run_run(), run_job(): job.state = ...; job.save(), an UPDATE by row id.
save_job(j, st) ==
    /\ hostOf[j] # "none"
    /\ jobOf[j].state # st
    /\ jobOf' = [jobOf EXCEPT ![j].state = st]
    /\ UNCHANGED <<hostOf, runsOf, logDirs, restVars>>
    /\ UNCHANGED <<installVars, nohupVars, submitResult, notified, gcResult,
                   delayVars, raceVars>>

\* purge() with metadata, for a Job of this host it found COMPLETE:
\* _delete_job removes the log directory of a Job with Runs, and
\* delete_instance(recursive=True) first deletes the Runs that depend on the
\* Job.
delete_runs(j) ==
    /\ hostOf[j] = "this"
    /\ jobOf[j].state = COMPLETE
    /\ j \notin deleting
    /\ logDirs' = IF runsOf[j] # <<>> THEN logDirs \ {j} ELSE logDirs
    /\ runsOf' = [runsOf EXCEPT ![j] = <<>>]
    /\ deleting' = deleting \cup {j}
    /\ UNCHANGED <<hostOf, jobOf, storeErrors, restVars>>
    /\ UNCHANGED <<installVars, nohupVars, submitResult, notified, gcResult, delayVars>>

\* delete_instance(): then the DELETE of the Job's own row, a statement of
\* its own; it fails if a Run was inserted for the Job in between.
delete_job(j) ==
    /\ j \in deleting
    /\ deleting' = deleting \ {j}
    /\ IF has_children(j)
       THEN /\ storeErrors' = storeErrors \cup {"delete"}
            /\ UNCHANGED <<hostOf, jobOf>>
       ELSE /\ hostOf' = [hostOf EXCEPT ![j] = "none"]
            /\ jobOf' = [jobOf EXCEPT ![j] = NoJobRow]
            /\ UNCHANGED storeErrors
    /\ UNCHANGED <<runsOf, logDirs, restVars>>
    /\ UNCHANGED <<installVars, nohupVars, submitResult, notified, gcResult, delayVars>>

\* A store in which every id has a Job of this host, in any state, with any
\* Runs and their log directory.
CascadeInit ==
    /\ hostOf = [j \in JobIds |-> "this"]
    /\ jobOf \in [JobIds -> [state : {SUBMITTED, RUNNING, COMPLETE},
                              exit_code : {NULL}, start_time : {0}]]
    /\ runsOf \in [JobIds -> CascadeRunSeqs]
    /\ logDirs = {j \in JobIds : runsOf[j] # <<>>}
    /\ job_id = <<>> /\ killResult = NoResult
    /\ dbFile = TRUE /\ stdioRoot = TRUE
    /\ NoCommand
    /\ NoSupervisor

CascadeNext ==
    \E j \in JobIds :
        \/ insert_run(j)
        \/ \E k \in 1 .. MaxRows, row \in RunRows : save_run(j, k, row)
        \/ \E st \in {RUNNING, COMPLETE} : save_job(j, st)
        \/ delete_runs(j)
        \/ delete_job(j)

CascadeSpec == CascadeInit /\ [][CascadeNext]_vars

\* ---------------------------------------------------------------- claims

JobExists == dbJobs # <<>>
JobRow == dbJobs[1]
RetryAttempts == IF policy.retry_attempts = NULL THEN 0 ELSE policy.retry_attempts
\* The Run with the highest attempt in the store.
LastRun == dbRuns[CHOOSE i \in 1 .. Len(dbRuns) :
                      \A j \in 1 .. Len(dbRuns) : dbRuns[j].attempt <= dbRuns[i].attempt]
RunOf(a) == {i \in 1 .. Len(dbRuns) : dbRuns[i].attempt = a}

\* C1: the Job's persisted state only moves Submitted -> Running -> Complete;
\* no write takes it from Complete back to Running or Submitted, nor from
\* Running back to Submitted.
JobStateMonotone ==
    [][(dbJobs # <<>> /\ dbJobs' # <<>>) => dbJobs'[1].state >= dbJobs[1].state]_vars

\* C2: in every state of the store the Job is Complete if and only if its last
\* Run is Complete and that Run exited with a success code, or is killed, or
\* has attempt = retry_attempts.  The states in which the supervisor stands
\* between the write of the Run and the write of the Job that follows it are
\* left out: the claim is read at the states between such pairs of writes.
JobCompleteIffLastRunFinal ==
    (JobExists /\ pc # "save_job_complete") =>
        ((JobRow.state = COMPLETE) <=>
            (/\ dbRuns # <<>>
             /\ LastRun.state = COMPLETE
             /\ \/ LastRun.exit_code \in policy.success_codes
                \/ LastRun.killed
                \/ LastRun.attempt = RetryAttempts))

\* C3: whenever the Job's persisted state is Complete, its exit_code is the
\* exit_code of its last Run.
JobExitCodeIsLastRuns ==
    (JobExists /\ JobRow.state = COMPLETE) =>
        (dbRuns # <<>> /\ JobRow.exit_code = LastRun.exit_code)

\* C4: when a kill with allow_retries = False has marked Run a while it was
\* running and retries remained, no Run a+1 is ever created and, once the
\* supervisor is through, Run a is persisted killed and the Job is Complete
\* with exactly a+1 Runs.
KillBlocksRetries ==
    \A a \in killedAttempts :
        a < RetryAttempts =>
            /\ RunOf(a + 1) = {}
            /\ pc = "done" =>
                   /\ \A i \in RunOf(a) : dbRuns[i].killed
                   /\ JobRow.state = COMPLETE
                   /\ Len(dbRuns) = a + 1

ChildRunning ==
    /\ pc \in {"save_run_running", "save_job_running", "proc_wait"}
    /\ children[proc].st = "running"

\* C5: when the supervisor handles the abort monitor's signal while the Run's
\* child is running, the signal is propagated to the child, and the supervisor
\* does not stop before the child is reaped and the Run persisted Complete with
\* its exit code and killed = false.
AbortPropagatesAndPersists ==
    [][(sigPending /\ ~sigPending' /\ ChildRunning) =>
          /\ children'[proc].signalled
          /\ pc' = "exited" =>
                 /\ children'[proc].st = "reaped"
                 /\ dbRuns'[run.id].state = COMPLETE
                 /\ dbRuns'[run.id].exit_code # NULL
                 /\ ~dbRuns'[run.id].killed]_vars

\* The abort signal ended the supervisor while it was in attempt `attempt`,
\* after it had started the child of that attempt.
AbortedInAttempt ==
    /\ pc = "exited"
    /\ run.id # 0 /\ run.attempt = attempt
    /\ Len(children) = attempt + 1

\* C6: after the abort monitor fired during attempt a, with the Run's exit code
\* outside success_codes, killed false and a < retry_attempts, the supervisor
\* does not stop without having created attempt a+1.
AbortKeepsRetries ==
    (/\ AbortedInAttempt
     /\ attempt < RetryAttempts
     /\ dbRuns[run.id].exit_code \notin policy.success_codes
     /\ ~dbRuns[run.id].killed)
        => RunOf(attempt + 1) # {}

\* C7: a submitted Job reaches persisted state Complete: the supervisor never
\* ends, whether or not an abort condition fired, with the Job short of
\* Complete.
SupervisorEndsWithJobComplete ==
    pc \in {"done", "exited"} => JobRow.state = COMPLETE

SuccessPersisted ==
    \E i \in 1 .. Len(dbRuns) : dbRuns[i].exit_code \in policy.success_codes

\* The supervisor holds the success exit code it wrote.
SuccessHeld == run.id # 0 /\ run.exit_code \in policy.success_codes

\* C8: once a Run is persisted with an exit_code in success_codes, no further
\* Run is ever created for the Job.  Stated as a step property: a success
\* exit code in the store is held by the supervisor too, a held one stays held
\* (also when another writer wipes the one in the store), and no step from
\* such a state adds a Run.
SuccessStopsRuns ==
    [][(SuccessPersisted \/ SuccessHeld) =>
          /\ SuccessHeld /\ SuccessHeld'
          /\ Len(dbRuns') = Len(dbRuns)]_vars

SuccessStopsRunsWitness ==
    /\ SuccessPersisted
    /\ pc = "done"
    /\ Len(dbRuns) < RetryAttempts + 1

\* C9: the attempts of the Job's Runs are exactly 0 .. n-1, each once, for
\* some n <= retry_attempts + 1 (retry_attempts unset counting as 0).
AttemptsConsecutive ==
    /\ \A i \in 1 .. Len(dbRuns) : dbRuns[i].attempt = i - 1
    /\ Len(dbRuns) <= RetryAttempts + 1

AttemptsConsecutiveWitness ==
    /\ Len(dbRuns) >= 2
    /\ Len(dbRuns) = RetryAttempts + 1
    /\ dbRuns[Len(dbRuns)].state = COMPLETE

\* Attempts whose child ended with a success code.
SuccessfulAttempts ==
    {a \in 0 .. Len(children) - 1 : children[a + 1].code \in policy.success_codes}
FirstSuccess == CHOOSE a \in SuccessfulAttempts : \A b \in SuccessfulAttempts : a <= b
NoSignal == \A p \in 1 .. Len(children) : ~children[p].signalled

\* C10: when the supervisor runs to the end and no child was signalled, the
\* number of Runs is min(k + 1, retry_attempts + 1), k the first attempt that
\* ended with a success code (retry_attempts + 1 if there is none).
RunCountExact ==
    (pc = "done" /\ NoSignal) =>
        Len(dbRuns) = IF SuccessfulAttempts = {} THEN RetryAttempts + 1
                      ELSE Min(FirstSuccess + 1, RetryAttempts + 1)

RunCountExactWitness ==
    /\ pc = "done" /\ NoSignal
    /\ RetryAttempts = 2
    /\ Len(dbRuns) = 2
    /\ killCount = 0

Running(i) == dbRuns[i].state = RUNNING

RunningHasPid ==
    /\ \A i \in 1 .. Len(dbRuns) : Running(i) => dbRuns[i].pid # NULL
    /\ \A k \in 1 .. Len(killRuns) : killRuns[k].pid # NULL

RunningHasPidWitness ==
    /\ killRuns # <<>>
    /\ \E i \in 1 .. Len(dbRuns) : Running(i) /\ killRuns[1].id = i

KillDelivers == killPc = "signal" /\ killIdx <= Len(killRuns) /\ killIdx' = killIdx + 1

Stopped == pc \in {"done", "exited"}

PathsOf(t) == {t[k] : k \in 1 .. Len(t)}
\* max(wait_time, submission_time + wait_duration), absent components left out.
WaitThreshold ==
    Max(IF timing.wait_time = NULL THEN 0 ELSE timing.wait_time,
        IF timing.wait_duration = NULL THEN 0
           ELSE start_time + timing.wait_duration)
\* wait() has returned.
GateOpen == pc \notin {"none", "returned", "run_job", "wait", "combine_waits",
                       "wait_test", "files_exist", "wait_sleep"}

\* C15: the wait gate has returned, or a Run exists, only after a test of the
\* gate's loop that read a clock >= max(wait_time, submission_time +
\* wait_duration) and found every path of wait_for_files in that same test.
GateOpensOnGoodSample ==
    (GateOpen \/ dbRuns # <<>>) =>
        /\ waitNow # NULL /\ waitNow >= WaitThreshold
        /\ PathsOf(timing.wait_for_files) \subseteq waitSeen

\* A Run exists for a Job that waited for a time and for two files, one of
\* which is gone again.
GateOpensOnGoodSampleWitness ==
    /\ dbRuns # <<>>
    /\ WaitThreshold > 0
    /\ timing.wait_for_files = <<"a", "b">>
    /\ "a" \notin files

\* A step that sends the abort signal to the supervisor.
AbortSends == ~sigPending /\ sigPending'
\* One of the abort conditions held at the monitor's present test.
AbortDue ==
    \/ timing.abort_time # NULL /\ abortNow >= timing.abort_time
    \/ timing.abort_duration # NULL /\ abortNow >= monitor_start + timing.abort_duration
    \/ abortHit # {} /\ abortHit \subseteq PathsOf(timing.abort_for_files)

\* C16: the abort monitor sends its signal at most once, and only from a test
\* at which now >= abort_time, or now >= monitor_start + abort_duration, or a
\* path of abort_for_files was found; with no abort policy it never sends,
\* and after the supervisor has stopped it (abort_proc.kill()) it sends
\* nothing.
AbortSendsOnceWhenDue ==
    [][/\ AbortSends => (abortNow # NULL /\ AbortDue /\ policy.abort)
       /\ AbortSends => (abortPc # "sent" /\ abortPc' = "sent")
       /\ abortPc \in {"sent", "killed"} => (~AbortSends /\ abortPc' = abortPc)
       /\ pc = "done" => ~AbortSends]_vars

\* The monitor has signalled for a file it found before any time was due.
AbortSendsOnceWhenDueWitness ==
    /\ abortPc = "sent"
    /\ abortHit # {}
    /\ abortNow < final_abort_time

ZeroDurationOnly ==
    /\ timing.abort_duration = 0
    /\ timing.abort_time = NULL
    /\ timing.abort_for_files = <<>>

\* C17: with abort_duration = 0s and no other abort policy the monitor's first
\* test is true, so it does not go to sleep but signals; and the supervisor
\* does not stop with its last Run failed, not killed and retries left.
ZeroDurationFiresAtFirstPoll ==
    ZeroDurationOnly =>
        /\ abortPc # "abort_sleep"
        /\ (Stopped /\ dbRuns # <<>>) =>
               \/ LastRun.exit_code \in policy.success_codes
               \/ LastRun.killed
               \/ LastRun.attempt = RetryAttempts

HostOfId(jid) == IF jid \in JobIds THEN hostOf[jid] ELSE "none"
\* The attempts of a Job's Runs that are Running with a pid.
ActiveOf(jid) == IF jid \in JobIds
                    THEN {a \in 0 .. Len(runsOf[jid]) - 1 :
                              runsOf[jid][a + 1].state = RUNNING}
                    ELSE {}
ReportedOf(jid) == {r \in killResult.killed_run_ids \cup
                              killResult.failed_killed_run_ids : r[1] = jid}

PurgeMatched(jid) ==
    /\ jid \in JobIds
    /\ hostOf[jid] = "this"
    /\ purgeResult'.since # NULL => jobOf[jid].start_time >= purgeResult'.since
    /\ purgeResult'.until # NULL => jobOf[jid].start_time <= purgeResult'.until
PurgeUntouched(jid) ==
    jid \in JobIds =>
        /\ hostOf'[jid] = hostOf[jid] /\ jobOf'[jid] = jobOf[jid]
        /\ runsOf'[jid] = runsOf[jid]
        /\ (jid \in logDirs') = (jid \in logDirs)
PurgeByIds ==
    /\ ~purgeResult.returned /\ purgeResult'.returned
    /\ ~purgeResult'.usage_error
    /\ purgeResult'.job_id # <<>>
PurgePartitionsStep ==
    PurgeByIds =>
        LET NE == Ids(purgeResult'.nonexistent_job_ids)
            P == purgeResult'.purged_job_ids
            S == purgeResult'.skipped_job_ids
        IN /\ NE \cup P \cup S = Ids(purgeResult'.job_id)
           /\ NE \cap P = {} /\ NE \cap S = {} /\ P \cap S = {}
           /\ \A jid \in Ids(purgeResult'.job_id) :
                /\ jid \in P <=>
                       PurgeMatched(jid) /\ jobOf[jid].state = COMPLETE
                /\ jid \in S <=>
                       PurgeMatched(jid) /\ jobOf[jid].state # COMPLETE
                /\ jid \in P =>
                       /\ jid \notin logDirs'
                       /\ IF purgeResult'.metadata
                             THEN hostOf'[jid] = "none" /\ runsOf'[jid] = <<>>
                             ELSE /\ hostOf'[jid] = hostOf[jid]
                                  /\ jobOf'[jid] = jobOf[jid]
                                  /\ runsOf'[jid] = runsOf[jid]
                /\ jid \notin P => PurgeUntouched(jid)

\* C22: for purge by ids each requested id is in exactly one of purged, skipped
\* and nonexistent: purged iff a Job of this host matched the filter and was
\* Complete (its log directory is gone and, with metadata, so are the Job and
\* its Runs), skipped iff it matched and was not Complete (logs and records
\* untouched), nonexistent otherwise.
PurgePartitions == [][PurgePartitionsStep]_vars

\* A purge with metadata whose request fell into all three lists, and that
\* removed a log directory, a Job and its Runs.
PurgePartitionsWitness ==
    /\ purgeResult.returned /\ purgeResult.metadata
    /\ purgeResult.nonexistent_job_ids # <<>>
    /\ purgeResult.skipped_job_ids # {}
    /\ \E j \in purgeResult.purged_job_ids : hostOf[j] = "none"
    /\ purgeResult.since # NULL

\* C23: purge invoked with job ids returns DataError whenever at least one
\* requested id did not match a Job of this host or matched a Job that was not
\* Complete, and OK only when every requested id was purged.
PurgeExitCode ==
    (purgeResult.returned /\ ~purgeResult.usage_error
                          /\ purgeResult.job_id # <<>>) =>
        /\ displayExit.returned /\ ~displayExit.raised
        /\ displayExit.code = EX_DATAERR <=>
               \/ purgeResult.nonexistent_job_ids # <<>>
               \/ purgeResult.skipped_job_ids # {}
        /\ displayExit.code = EX_OK <=>
               Ids(purgeResult.job_id) = purgeResult.purged_job_ids

PurgeUsageStep ==
    (/\ ~purgeResult.returned /\ purgeResult'.returned
     /\ (purgeResult'.job_id = <<>>) = ~purgeResult'.all) =>
        /\ purgeResult'.usage_error
        /\ displayExit'.raised
        /\ UNCHANGED <<hostOf, jobOf, runsOf, logDirs, dbFile, stdioRoot>>

\* C24: purge called with neither job ids nor all, or with both, fails with a
\* usage error and leaves the store and every log directory unchanged.
PurgeUsageError == [][PurgeUsageStep]_vars

\* Both ids and all were given, and a requested Job of this host is Complete
\* with its log directory still in place.
PurgeUsageErrorWitness ==
    /\ purgeResult.returned /\ purgeResult.usage_error
    /\ purgeResult.all /\ purgeResult.metadata
    /\ \E j \in Ids(purgeResult.job_id) \cap JobIds :
          /\ hostOf[j] = "this" /\ jobOf[j].state = COMPLETE
          /\ j \in logDirs /\ runsOf[j] # <<>>

\* C25: status returns UNAVAILABLE exactly when at least one requested id is not
\* the id of a Job of this host in the store, and OK otherwise; the missing
\* ids are exactly the requested ids with no such Job.
StatusExitCode ==
    statusResult.returned =>
        LET missing == {jid \in Ids(statusResult.job_id) :
                           HostOfId(jid) # "this"}
        IN /\ statusResult.not_found_job_ids = missing
           /\ displayExit.returned /\ ~displayExit.raised
           /\ displayExit.code = IF missing # {} THEN EX_UNAVAILABLE
                                 ELSE EX_OK

\* C26: every Job and every Run status returns belongs to this host: each
\* returned Run is a Run of one of the returned Jobs.
StatusRunsOfReturnedJobs ==
    statusResult.returned =>
        /\ \A j \in statusResult.jobs : hostOf[j] = "this"
        /\ \A r \in statusResult.runs :
              r[1] \in statusResult.jobs /\ hostOf[r[1]] = "this"

\* C27: ls returns exactly the Jobs of this host that, unless all is given,
\* are Submitted or Running; any Runs it returns belong to the returned Jobs.
LsReturnsHostJobs ==
    lsResult.returned =>
        /\ lsResult.jobs =
              {j \in JobIds :
                  /\ hostOf[j] = "this"
                  /\ ~lsResult.all => jobOf[j].state # COMPLETE}
        /\ \A r \in lsResult.runs : r[1] \in lsResult.jobs

\* ls without all over a store with a Submitted Job of this host whose Run is
\* returned, and another host's Job with Runs that is not.
LsReturnsHostJobsWitness ==
    /\ lsResult.returned /\ ~lsResult.all
    /\ \E r \in lsResult.runs : jobOf[r[1]].state = SUBMITTED
    /\ \E j \in JobIds : hostOf[j] = "other" /\ runsOf[j] # <<>>

\* C28: after reset, whatever the prior state, the store exists with its
\* schema and holds no Job and no Run, and no job log directory remains under
\* the stdio root.
ResetLeavesEmptyStore ==
    resetDone =>
        /\ dbFile /\ stdioRoot
        /\ \A j \in JobIds : hostOf[j] = "none" /\ runsOf[j] = <<>>
        /\ logDirs = {}

\* reset has returned and left a store file and an empty stdio root.
ResetLeavesEmptyStoreWitness ==
    /\ resetDone
    /\ dbFile /\ stdioRoot /\ logDirs = {}
    /\ hostOf = NoStore /\ runsOf = NoRuns

\* C29: for a list value whose elements do not contain the delimiter, the
\* empty list and empty-string elements included, writing it and reading it
\* back yields a list with the same elements in the same order.
ListRoundTrip ==
    (/\ fieldRead.done
     /\ \A k \in 1 .. Len(fieldValue) : ~HasDelim(fieldValue[k])) =>
        /\ fieldOutcome = "saved"
        /\ ~fieldRead.none
        /\ fieldRead.list = fieldValue

FieldSaveStep ==
    (/\ fieldOutcome = "none" /\ fieldOutcome' # "none"
     /\ \E k \in 1 .. Len(fieldValue') : HasDelim(fieldValue'[k])) =>
        /\ fieldOutcome' = "ValueError"
        /\ dbValue' = dbValue
FieldReadStep ==
    (~fieldRead.done /\ fieldRead'.done) =>
        \A k \in 1 .. Len(fieldRead'.list) : ~HasDelim(fieldRead'.list[k])

\* C30: persisting a list with an element that contains the delimiter fails
\* with a value error and writes nothing, so no element of a stored list ever
\* contains the delimiter.
DelimiterRejected == [][FieldSaveStep /\ FieldReadStep]_vars

\* A save of a list with a delimiter in its second element was refused while
\* the column held a list, and the column reads back as that list.
DelimiterRejectedWitness ==
    /\ fieldOutcome = "ValueError"
    /\ Len(fieldValue) = 2 /\ ~HasDelim(fieldValue[1]) /\ HasDelim(fieldValue[2])
    /\ fieldRead.done /\ ~fieldRead.none
    /\ Len(fieldRead.list) = 2

\* The number of lines of a text that contain the sentinel.
RECURSIVE SentinelLines(_)
SentinelLines(text) ==
    IF text = <<>> THEN 0
    ELSE LET ends == {k \in 1 .. Len(text) : text[k] = "nl"} \cup {Len(text) + 1}
             k == CHOOSE m \in ends : \A n \in ends : m <= n
         IN (IF search_(SubSeq(text, 1, k - 1)) THEN 1 ELSE 0)
            + SentinelLines(SubSeq(text, k + 1, Len(text)))
\* The calls made so far for the supported shell, in order.
SupportedCalls == SelectSeq(installLog, LAMBDA r : r # "JobmanError")

\* C31: install_completions is idempotent for a supported shell: starting from
\* an rc file that is missing, empty or without the sentinel, after any number
\* of calls the file holds exactly one line with the sentinel, and every call
\* after the first reports already_installed.
InstallIdempotent ==
    SupportedCalls # <<>> =>
        /\ rcFile.exists
        /\ SentinelLines(rcFile.text) = 1
        /\ SupportedCalls[1] = "installed"
        /\ \A k \in 2 .. Len(SupportedCalls) :
              SupportedCalls[k] = "already_installed"

\* A process is a session leader when its session carries its own pid.
SessionLeader(p) == procs[p].sid = p

\* C32, as stated: after detach returns, the process that continues has no
\* controlling terminal and is a session leader.
DetachedIsSessionLeader ==
    nohupPc[3] = "returned" => ~procs[3].ctty /\ SessionLeader(3)

\* C32, amended: nohupify returns only in the child of the second fork; the
\* original and the intermediate process never return from it (they exit or
\* raise); the process that continues has no controlling terminal and is not
\* a session leader: it is a member of the session the intermediate process
\* created and led.
DetachedNotSessionLeader ==
    /\ nohupPc[1] # "returned" /\ nohupPc[2] # "returned"
    /\ nohupPc[3] = "returned" =>
          /\ procs[3].alive
          /\ ~procs[3].ctty
          /\ procs[3].sid = 2 /\ ~SessionLeader(3)
          /\ procs[3].streams = {}

\* The caller had a controlling terminal; the grandchild has returned and the
\* other two processes have exited.
DetachedNotSessionLeaderWitness ==
    /\ nohupPc[3] = "returned"
    /\ procs[1].ctty /\ ~procs[1].alive /\ ~procs[2].alive

\* C33: a submission whose generated job_id is the id of a Job already in the
\* store ends without an error, the new Job persisted under an id not used
\* before.
SubmitNeverFails ==
    submitResult.returned =>
        /\ ~submitResult.raised
        /\ hostOf[submitResult.job_id] = "this"
        /\ jobOf[submitResult.job_id] = SubmittedJob

\* C34: once run_job has returned, on_run_completion has been dispatched for
\* every Run that is persisted as Complete.
RunNotificationsDispatched ==
    pc = "done" =>
        \A i \in 1 .. Len(dbRuns) :
            dbRuns[i].state = COMPLETE =>
                <<"on_run_completion", dbRuns[i].attempt>> \in notified

\* C35: after a background sweep has run, no Job of this host that is
\* Complete with start_time <= now - gc_expiry still has a log directory.
GcSweepsExpiredLogs ==
    gcResult \notin {"none", "started"} =>
        \A j \in JobIds :
            /\ hostOf[j] = "this"
            /\ jobOf[j].state = COMPLETE
            /\ jobOf[j].start_time <= gc_until
            => j \notin logDirs

\* The delay of the claim before attempt n, in tenths of a second, jitter
\* apart.
expected_delay(n) ==
    IF n = 0 \/ delayPolicy.retry_delay = NULL THEN 0
    ELSE 10 * delayPolicy.retry_delay
            * (IF delayPolicy.retry_expo_backoff THEN 2 ^ (n - 1) ELSE 1)

\* C36: before attempt n >= 1 the supervisor sleeps for retry_delay * 2^(n-1)
\* with exponential backoff and for retry_delay without (0 when unset), never
\* before attempt 0; with jitter the delay is within a tenth of the base delay
\* of that value and never negative.
RetryDelay ==
    \A k \in 1 .. Len(slept) :
        LET n == k - 1
            d == slept[k].tenths
            base == IF delayPolicy.retry_delay = NULL THEN 0
                    ELSE delayPolicy.retry_delay
        IN /\ n = 0 => ~slept[k].slept
           /\ ~slept[k].slept => d = 0
           /\ ~delayPolicy.retry_jitter => d = expected_delay(n)
           /\ d - expected_delay(n) <= base
           /\ expected_delay(n) - d <= base
           /\ d >= 0

\* The supervisor has slept before attempt 2 with backoff and with a jitter
\* other than 0.
RetryDelayWitness ==
    /\ Len(slept) >= 3
    /\ slept[3].slept
    /\ delayPolicy.retry_expo_backoff
    /\ delayPolicy.retry_jitter
    /\ slept[3].tenths < expected_delay(2)
    /\ ~slept[1].slept

\* C37: in every state in which a Run of the Job exists in the store, the
\* Job's state in the store is not Submitted.
JobRunningBeforeFirstRun ==
    dbRuns # <<>> => dbJobs # <<>> /\ dbJobs[1].state # SUBMITTED

PurgeSparesLiveJob ==
    [][(live_job_id \in purgeResult.purged_job_ids)
           => ~(pc = "create_run" /\ pc' = "popen")]_vars

\* C40: in every state of the store every Run refers to a Job that exists:
\* where the Job's row is gone there is no Run of it.
RunsReferToJobs ==
    \A j \in JobIds : runsOf[j] # <<>> => hostOf[j] # "none"

\* purge has deleted one Job with its Runs while the DELETE of another failed
\* on a Run inserted meanwhile, and an INSERT of a Run for a deleted Job was
\* refused.
RunsReferToJobsWitness ==
    /\ storeErrors = {"insert", "delete"}
    /\ deleting = {}
    /\ \E j \in JobIds : hostOf[j] = "none" /\ runsOf[j] = <<>>
    /\ \E j \in JobIds : hostOf[j] = "this" /\ runsOf[j] # <<>>

====
